---------------------------- MODULE Spec2Model ----------------------------
(***************************************************************************)
(* The Uganda income-tax computation of the repository, as a state         *)
(* machine.  A behaviour is one session of one of the three Streamlit      *)
(* scripts: every widget edit reruns the whole script, so every action     *)
(* sets one widget and recomputes all the figures the script derives.      *)
(*                                                                         *)
(* Money is an integer number of cents (0.01 UGX); a rate is an integer    *)
(* number of percent.  The product of an amount and a rate is an exact     *)
(* decimal [c |-> whole cents, f |-> hundredths of a cent, 0..99], which   *)
(* is what round(x, 2) rounds.                                             *)
(***************************************************************************)
EXTENDS Integers, Sequences, FiniteSets, TLC

(***************************************************************************)
(* Bounds of the model.                                                    *)
(***************************************************************************)
MaxAmt == 2
MaxIncome == 5
MaxThr == 3
MaxFixed == 1
MaxTiers == 2
MaxRows == 2
MaxSaved == 1

Amounts == 0..MaxAmt
RatePcts == 0..100
TierRates == {10, 50}
FixedAmounts == {0, MaxFixed}

(***************************************************************************)
(* Decimal arithmetic of the float expressions.                            *)
(***************************************************************************)
\* amount * rate: cents times percent, exact.
Times(amount, rate) ==
    LET a == amount \div 100
        b == amount % 100
    IN  [c |-> a * rate + (b * rate) \div 100, f |-> (b * rate) % 100]

\* n + d for whole cents n and an exact decimal d.
Plus(n, d) == [c |-> n + d.c, f |-> d.f]

\* max(0.0, d)
max0dec(d) == IF d.c < 0 THEN [c |-> 0, f |-> 0] ELSE d

\* max(0.0, n)
max0(n) == IF n < 0 THEN 0 ELSE n

min(a, b) == IF a < b THEN a ELSE b

\* round(d, 2): to the nearest cent, a tie to the even cent.
round2(d) ==
    IF d.f < 50 THEN d.c
    ELSE IF d.f > 50 THEN d.c + 1
    ELSE IF d.c % 2 = 0 THEN d.c ELSE d.c + 1

(***************************************************************************)
(* Tax computation (mvp_streamlit_app.py).                                 *)
(***************************************************************************)
\* Mutant of bracket_loop: each tier the income exceeds adds to the tax of
\* the tiers below it.
RECURSIVE bracket_loop_adding(_, _, _, _)
bracket_loop_adding(taxable_income, brackets, i, tax) ==
    IF i > Len(brackets) THEN tax
    ELSE IF taxable_income > brackets[i].threshold
         THEN bracket_loop_adding(taxable_income, brackets, i + 1,
                  Plus(tax.c + brackets[i].fixed,
                       Times(max0((IF i + 1 <= Len(brackets)
                                   THEN min(taxable_income,
                                            brackets[i + 1].threshold)
                                   ELSE taxable_income)
                                  - brackets[i].threshold),
                             brackets[i].rate)))
         ELSE tax

\* Mutant of bracket_loop: the scan stops at the first tier the income exceeds.
bracket_loop_first(taxable_income, brackets, i, tax) ==
    IF i > Len(brackets) THEN tax
    ELSE IF taxable_income > brackets[i].threshold
         THEN Plus(brackets[i].fixed,
                   Times(max0((IF i + 1 <= Len(brackets)
                               THEN min(taxable_income,
                                        brackets[i + 1].threshold)
                               ELSE taxable_income) - brackets[i].threshold),
                         brackets[i].rate))
         ELSE tax

\* Mutant of bracket_loop: an income equal to a threshold enters its tier.
RECURSIVE bracket_loop_ge(_, _, _, _)
bracket_loop_ge(taxable_income, brackets, i, tax) ==
    IF i > Len(brackets) THEN tax
    ELSE IF taxable_income >= brackets[i].threshold
         THEN bracket_loop_ge(taxable_income, brackets, i + 1,
                  Plus(brackets[i].fixed,
                       Times(max0((IF i + 1 <= Len(brackets)
                                   THEN min(taxable_income,
                                            brackets[i + 1].threshold)
                                   ELSE taxable_income)
                                  - brackets[i].threshold),
                             brackets[i].rate)))
         ELSE tax

\* The for loop of compute_individual_tax_brackets from index i on, tax
\* being the running result; the else branch is the break.
RECURSIVE bracket_loop(_, _, _, _)
bracket_loop(taxable_income, brackets, i, tax) ==
    IF i > Len(brackets) THEN tax
    ELSE LET threshold == brackets[i].threshold
             rate == brackets[i].rate
             fixed == IF "fixed" \in DOMAIN brackets[i]
                      THEN brackets[i].fixed ELSE 0
             upper == IF i + 1 <= Len(brackets)
                      THEN min(taxable_income, brackets[i + 1].threshold)
                      ELSE taxable_income
             taxable_slice == max0(upper - threshold)
         IN  IF taxable_income > threshold
             THEN bracket_loop(taxable_income, brackets, i + 1,
                               Plus(fixed, Times(taxable_slice, rate)))
             ELSE tax

\* Mutant of compute_individual_tax_brackets: the result is not floored at 0.
compute_individual_tax_brackets_unfloored(taxable_income, brackets) ==
    IF taxable_income <= 0 THEN 0
    ELSE round2(bracket_loop(taxable_income, brackets, 1,
                             [c |-> 0, f |-> 0]))

\* Mutant of compute_individual_tax_brackets: the result is cut to whole
\* cents, not rounded.
compute_individual_tax_brackets_trunc(taxable_income, brackets) ==
    IF taxable_income <= 0 THEN 0
    ELSE max0dec(bracket_loop(taxable_income, brackets, 1,
                              [c |-> 0, f |-> 0])).c

compute_individual_tax_brackets(taxable_income, brackets) ==
    IF taxable_income <= 0 THEN 0
    ELSE round2(max0dec(bracket_loop(taxable_income, brackets, 1,
                                     [c |-> 0, f |-> 0])))

\* Mutant of compute_company_tax: no early return for an income <= 0.
compute_company_tax_unguarded(taxable_income, company_rate_) ==
    round2(Times(taxable_income, company_rate_))

\* Mutant of compute_company_tax: the product is truncated, not rounded.
compute_company_tax_trunc(taxable_income, company_rate_) ==
    IF taxable_income <= 0 THEN 0
    ELSE Times(taxable_income, company_rate_).c

compute_company_tax(taxable_income, company_rate_) ==
    IF taxable_income <= 0 THEN 0
    ELSE round2(Times(taxable_income, company_rate_))

\* Mutant of apply_credits_and_rebates: the rebates are not subtracted.
apply_credits_only(gross_tax_, credits_wht_, credits_foreign_, rebates_) ==
    max0(gross_tax_ - credits_wht_ - credits_foreign_)

apply_credits_and_rebates(gross_tax_, credits_wht_, credits_foreign_, rebates_) ==
    max0(gross_tax_ - credits_wht_ - credits_foreign_ - rebates_)

\* The built-in bracket table, in cents and percent.
default_brackets ==
    << [threshold |-> 0,          rate |-> 0,  fixed |-> 0],
       [threshold |-> 282000000,  rate |-> 10, fixed |-> 0],
       [threshold |-> 402000000,  rate |-> 20, fixed |-> 12000000],
       [threshold |-> 492000000,  rate |-> 30, fixed |-> 36000000],
       [threshold |-> 1000000000, rate |-> 40, fixed |-> 183000000] >>


\* A syntactically valid table a user can type into the sidebar's JSON box.
Tiers == [threshold : 0..MaxThr, rate : TierRates, fixed : FixedAmounts]

\* sorted(json.loads(brackets_json), key=lambda x: x["threshold"]): a stable
\* sort, built by inserting each tier behind the tiers not above it.
RECURSIVE insert_sorted(_, _)
insert_sorted(t, s) ==
    IF s = << >> THEN << t >>
    ELSE IF s[Len(s)].threshold <= t.threshold THEN Append(s, t)
    ELSE Append(insert_sorted(t, SubSeq(s, 1, Len(s) - 1)), s[Len(s)])

RECURSIVE sorted_by_threshold(_)
sorted_by_threshold(raw) ==
    IF raw = << >> THEN << >>
    ELSE insert_sorted(raw[Len(raw)],
                       sorted_by_threshold(SubSeq(raw, 1, Len(raw) - 1)))

\* Mutant of load_brackets: the tiers are used in the order they are typed.
load_brackets_unsorted(json) ==
    IF json.valid THEN json.tiers ELSE default_brackets

\* The sidebar's try/except: brackets_json is [valid, tiers]; text that does
\* not load as a list of tiers raises, and the default table is used.
load_brackets(json) ==
    IF json.valid THEN sorted_by_threshold(json.tiers) ELSE default_brackets

(***************************************************************************)
(* Text.  A Python str that the program parses, searches or formats is a   *)
(* sequence of one-character strings; names that are only compared (field  *)
(* names, form codes, dict keys) are strings.                              *)
(***************************************************************************)
DigitChars == << "0", "1", "2", "3", "4", "5", "6", "7", "8", "9" >>

IsDigit(ch) == \E d \in 1..10 : DigitChars[d] = ch

DigitVal(ch) == (CHOOSE d \in 1..10 : DigitChars[d] = ch) - 1

\* s.strip(), for blanks
RECURSIVE lstrip(_)
lstrip(s) ==
    IF s # << >> /\ Head(s) = " " THEN lstrip(Tail(s)) ELSE s

RECURSIVE rstrip(_)
rstrip(s) ==
    IF s # << >> /\ s[Len(s)] = " "
    THEN rstrip(SubSeq(s, 1, Len(s) - 1)) ELSE s

strip(s) == rstrip(lstrip(s))

AllDigits(s) == \A i \in 1..Len(s) : IsDigit(s[i])

\* The number a run of decimal digits denotes.
RECURSIVE digits_value(_)
digits_value(s) ==
    IF s = << >> THEN 0
    ELSE 10 * digits_value(SubSeq(s, 1, Len(s) - 1)) + DigitVal(s[Len(s)])

\* The decimal digits of n >= 0.
RECURSIVE digits_of(_)
digits_of(n) ==
    IF n < 10 THEN << DigitChars[n + 1] >>
    ELSE Append(digits_of(n \div 10), DigitChars[(n % 10) + 1])

HasSign(s) == s # << >> /\ Head(s) \in {"-", "+"}

Unsigned(s) == IF HasSign(s) THEN Tail(s) ELSE s

Signed(s, n) == IF s # << >> /\ Head(s) = "-" THEN 0 - n ELSE n

\* The index of the first "." of s, Len(s) + 1 if it has none.
DotAt(s) ==
    IF \E i \in 1..Len(s) : s[i] = "."
    THEN CHOOSE i \in 1..Len(s) :
             s[i] = "." /\ \A j \in 1..(i - 1) : s[j] # "."
    ELSE Len(s) + 1

(***************************************************************************)
(* Python values of a payload: t is the type's name, n the number of an    *)
(* int (whole) or of a float (in cents), s the text of a str.              *)
(***************************************************************************)
IntV(n) == [t |-> "int", n |-> n, s |-> << >>]
FloatV(cents) == [t |-> "float", n |-> cents, s |-> << >>]
StrV(s) == [t |-> "str", n |-> 0, s |-> s]
NoneV == [t |-> "NoneType", n |-> 0, s |-> << >>]

\* An exception: its class, the text of its message, and the field name,
\* dict key or value that the message quotes.
Raise(kind, text, field, key, value) ==
    [kind |-> kind, text |-> text, field |-> field, key |-> key,
     value |-> value]

NoError == Raise("", "", "", "", << >>)

Returns(v) == [ok |-> TRUE, v |-> v, error |-> NoError]
Raises(e) == [ok |-> FALSE, v |-> NoneV, error |-> e]

\* int(val)
py_int(val) ==
    IF val.t = "int" THEN Returns(val)
    ELSE IF val.t = "float"
    THEN Returns(IntV(IF val.n >= 0 THEN val.n \div 100
                      ELSE 0 - ((0 - val.n) \div 100)))
    ELSE IF val.t = "str"
    THEN LET body == Unsigned(strip(val.s))
         IN  IF body # << >> /\ AllDigits(body)
             THEN Returns(IntV(Signed(strip(val.s), digits_value(body))))
             ELSE Raises(Raise("ValueError",
                               "invalid literal for int() with base 10: ",
                               "", "", val.s))
    ELSE Raises(Raise("TypeError",
                      "int() argument must be a string, a bytes-like object or a real number, not 'NoneType'",
                      "", "", << >>))

\* float(val); a decimal literal is read to the cent.
py_float(val) ==
    IF val.t = "float" THEN Returns(val)
    ELSE IF val.t = "int" THEN Returns(FloatV(100 * val.n))
    ELSE IF val.t = "str"
    THEN LET body == Unsigned(strip(val.s))
             whole == SubSeq(body, 1, DotAt(body) - 1)
             frac == SubSeq(body, DotAt(body) + 1, Len(body))
             cents == 100 * digits_value(whole)
                      + (IF frac = << >> THEN 0
                         ELSE IF Len(frac) = 1 THEN 10 * DigitVal(frac[1])
                         ELSE digits_value(SubSeq(frac, 1, 2)))
         IN  IF /\ AllDigits(whole) /\ AllDigits(frac)
                /\ Len(whole) + Len(frac) > 0
             THEN Returns(FloatV(Signed(strip(val.s), cents)))
             ELSE Raises(Raise("ValueError",
                               "could not convert string to float: ",
                               "", "", val.s))
    ELSE Raises(Raise("TypeError",
                      "float() argument must be a string or a real number, not 'NoneType'",
                      "", "", << >>))

\* str(val): the digits of an int, the repr of a float, the str itself.
py_str(val) ==
    IF val.t = "str" THEN Returns(val)
    ELSE IF val.t = "int"
    THEN Returns(StrV(IF val.n < 0 THEN << "-" >> \o digits_of(0 - val.n)
                      ELSE digits_of(val.n)))
    ELSE IF val.t = "float"
    THEN LET a == IF val.n < 0 THEN 0 - val.n ELSE val.n
             fr == a % 100
             frac == IF fr % 10 = 0 THEN digits_of(fr \div 10)
                     ELSE << DigitChars[(fr \div 10) + 1],
                             DigitChars[(fr % 10) + 1] >>
         IN  Returns(StrV((IF val.n < 0 THEN << "-" >> ELSE << >>)
                          \o digits_of(a \div 100) \o << "." >> \o frac))
    ELSE Returns(StrV(<< "N", "o", "n", "e" >>))

(***************************************************************************)
(* Python dicts, in insertion order: a sequence of [key, val] with no key  *)
(* twice.                                                                  *)
(***************************************************************************)
dict_has(d, key) == \E i \in 1..Len(d) : d[i].key = key

dict_get(d, key) == d[CHOOSE i \in 1..Len(d) : d[i].key = key].val

\* d[key] = val: in place for a key of d, at the end for a new one
dict_set(d, key, val) ==
    IF dict_has(d, key)
    THEN [i \in 1..Len(d) |-> IF d[i].key = key
                              THEN [key |-> key, val |-> val] ELSE d[i]]
    ELSE Append(d, [key |-> key, val |-> val])

\* del d[key]
dict_del(d, key) == SelectSeq(d, LAMBDA e : e.key # key)

dict_keys(d) == [i \in 1..Len(d) |-> d[i].key]

dict_values(d) == [i \in 1..Len(d) |-> d[i].val]

(***************************************************************************)
(* URA form schemas and validation (mvp_streamlit_app.py).                 *)
(***************************************************************************)
URA_SCHEMAS ==
    [x \in {"DT-2001", "DT-2002"} |->
        IF x = "DT-2001"
        THEN [fields |->
                 << << "TIN", "str" >>, << "Taxpayer Name", "str" >>,
                    << "Period", "str" >>, << "Year", "int" >>,
                    << "Business Income (UGX)", "float" >>,
                    << "Allowable Deductions (UGX)", "float" >>,
                    << "Capital Allowances (UGX)", "float" >>,
                    << "Exemptions (UGX)", "float" >>,
                    << "Taxable Income (UGX)", "float" >>,
                    << "Gross Tax (UGX)", "float" >>,
                    << "WHT Credits (UGX)", "float" >>,
                    << "Foreign Tax Credit (UGX)", "float" >>,
                    << "Rebates (UGX)", "float" >>,
                    << "Net Tax Payable (UGX)", "float" >> >>]
        ELSE [fields |->
                 << << "TIN", "str" >>, << "Entity Name", "str" >>,
                    << "Period", "str" >>, << "Year", "int" >>,
                    << "Gross Turnover (UGX)", "float" >>,
                    << "COGS (UGX)", "float" >>,
                    << "Operating Expenses (UGX)", "float" >>,
                    << "Other Income (UGX)", "float" >>,
                    << "Other Expenses (UGX)", "float" >>,
                    << "Capital Allowances (UGX)", "float" >>,
                    << "Exemptions (UGX)", "float" >>,
                    << "Taxable Income (UGX)", "float" >>,
                    << "Gross Tax (UGX)", "float" >>,
                    << "WHT Credits (UGX)", "float" >>,
                    << "Foreign Tax Credit (UGX)", "float" >>,
                    << "Rebates (UGX)", "float" >>,
                    << "Net Tax Payable (UGX)", "float" >> >>]]

\* The if/elif/else on ftype.
coerce(ftype, val) ==
    IF ftype = "int" THEN py_int(val)
    ELSE IF ftype = "float" THEN py_float(val)
    ELSE py_str(val)

\* What a call gives: the one-row DataFrame (its columns and its row), or
\* the exception that leaves it.
Frame(out) ==
    [ok |-> TRUE, columns |-> dict_keys(out), row |-> dict_values(out),
     error |-> NoError]

Failed(e) == [ok |-> FALSE, columns |-> << >>, row |-> << >>, error |-> e]

\* Mutant of build_loop: a field that the payload lacks is left out of the
\* record.
RECURSIVE build_loop_skip_missing(_, _, _, _)
build_loop_skip_missing(schema, payload_, i, out) ==
    IF i > Len(schema) THEN Frame(out)
    ELSE IF ~dict_has(payload_, schema[i][1])
    THEN build_loop_skip_missing(schema, payload_, i + 1, out)
    ELSE IF ~coerce(schema[i][2], dict_get(payload_, schema[i][1])).ok
    THEN Failed(coerce(schema[i][2], dict_get(payload_, schema[i][1])).error)
    ELSE build_loop_skip_missing(schema, payload_, i + 1,
             dict_set(out, schema[i][1],
                      coerce(schema[i][2],
                             dict_get(payload_, schema[i][1])).v))

\* The for loop of validate_and_build_return from schema index i on, out
\* being the dict built so far.
RECURSIVE build_loop(_, _, _, _)
build_loop(schema, payload_, i, out) ==
    IF i > Len(schema) THEN Frame(out)
    ELSE IF ~dict_has(payload_, schema[i][1])
    THEN Failed(Raise("ValueError", "Missing required field: ",
                      schema[i][1], "", << >>))
    ELSE IF ~coerce(schema[i][2], dict_get(payload_, schema[i][1])).ok
    THEN Failed(coerce(schema[i][2], dict_get(payload_, schema[i][1])).error)
    ELSE build_loop(schema, payload_, i + 1,
             dict_set(out, schema[i][1],
                      coerce(schema[i][2],
                             dict_get(payload_, schema[i][1])).v))

\* Mutant of validate_and_build_return: the frame's columns follow the
\* payload's order.
validate_and_build_return_payload_order(form_code_, payload_) ==
    IF form_code_ \notin DOMAIN URA_SCHEMAS
    THEN Failed(Raise("KeyError", "", "", form_code_, << >>))
    ELSE LET r == build_loop(URA_SCHEMAS[form_code_].fields, payload_, 1,
                             << >>)
             kept == SelectSeq(payload_,
                         LAMBDA e : \E i \in 1..Len(r.columns) :
                                        r.columns[i] = e.key)
         IN  IF ~r.ok THEN r
             ELSE [r EXCEPT !.columns = dict_keys(kept),
                            !.row = [j \in 1..Len(kept) |->
                                        r.row[CHOOSE i \in 1..Len(r.columns) :
                                                  r.columns[i] = kept[j].key]]]

\* Mutant of validate_and_build_return: a form code without a schema is
\* given an empty one.
validate_and_build_return_default_schema(form_code_, payload_) ==
    IF form_code_ \notin DOMAIN URA_SCHEMAS
    THEN build_loop(<< >>, payload_, 1, << >>)
    ELSE build_loop(URA_SCHEMAS[form_code_].fields, payload_, 1, << >>)

\* Mutant of validate_and_build_return: every field's presence is checked
\* before any value is converted.
validate_and_build_return_presence_first(form_code_, payload_) ==
    IF form_code_ \notin DOMAIN URA_SCHEMAS
    THEN Failed(Raise("KeyError", "", "", form_code_, << >>))
    ELSE LET schema == URA_SCHEMAS[form_code_].fields
             lacking == {i \in 1..Len(schema) :
                            ~dict_has(payload_, schema[i][1])}
         IN  IF lacking # {}
             THEN Failed(Raise("ValueError", "Missing required field: ",
                               schema[CHOOSE i \in lacking :
                                          \A j \in lacking : i <= j][1],
                               "", << >>))
             ELSE build_loop(schema, payload_, 1, << >>)

validate_and_build_return(form_code_, payload_) ==
    IF form_code_ \notin DOMAIN URA_SCHEMAS
    THEN Failed(Raise("KeyError", "", "", form_code_, << >>))
    ELSE build_loop(URA_SCHEMAS[form_code_].fields, payload_, 1, << >>)

(***************************************************************************)
(* P&L mapping (mvp_streamlit_app.py): auto_map_pl over a dataset          *)
(* [loaded, columns, rows]: columns are the header texts, a row holds one  *)
(* cell (a Python value) per column; amounts are in cents.                 *)
(***************************************************************************)
UpperChars ==
    << "A", "B", "C", "D", "E", "F", "G", "H", "I", "J", "K", "L", "M",
       "N", "O", "P", "Q", "R", "S", "T", "U", "V", "W", "X", "Y", "Z" >>

LowerChars ==
    << "a", "b", "c", "d", "e", "f", "g", "h", "i", "j", "k", "l", "m",
       "n", "o", "p", "q", "r", "s", "t", "u", "v", "w", "x", "y", "z" >>

\* c.lower() of one character
UpperSet == {UpperChars[k] : k \in 1..26}

lower_char(c) ==
    IF c \in UpperSet
    THEN LowerChars[CHOOSE k \in 1..26 : UpperChars[k] = c]
    ELSE c

\* s.lower()
RECURSIVE lower(_)
lower(s) ==
    IF s = << >> THEN << >>
    ELSE << lower_char(Head(s)) >> \o lower(Tail(s))

\* Whether kw occurs in s.
contains(s, kw) ==
    \E i \in 1..(Len(s) - Len(kw) + 1) : SubSeq(s, i, i + Len(kw) - 1) = kw

\* The alternatives of the five patterns given to str.contains.
revenue_keywords ==
    { << "i", "n", "c", "o", "m", "e" >>,
      << "s", "a", "l", "e", "s" >>,
      << "r", "e", "v", "e", "n", "u", "e" >> }

cogs_keywords ==
    { << "c", "o", "g", "s" >>,
      << "c", "o", "s", "t", " ", "o", "f", " ", "g", "o", "o", "d", "s" >> }

opex_keywords ==
    { << "e", "x", "p", "e", "n", "s", "e" >>,
      << "u", "t", "i", "l", "i", "t", "i", "e", "s" >>,
      << "r", "e", "n", "t" >>,
      << "s", "a", "l", "a", "r", "y" >>,
      << "t", "r", "a", "n", "s", "p", "o", "r", "t" >>,
      << "a", "d", "m", "i", "n" >> }

other_income_keywords ==
    { << "o", "t", "h", "e", "r", " ", "i", "n", "c", "o", "m", "e" >>,
      << "g", "a", "i", "n" >> }

other_expenses_keywords ==
    { << "o", "t", "h", "e", "r", " ", "e", "x", "p", "e", "n", "s", "e" >>,
      << "l", "o", "s", "s" >> }

\* The column names looked up in cols.
col_revenue ==
    << "r", "e", "v", "e", "n", "u", "e" >>

col_cogs ==
    << "c", "o", "g", "s" >>

col_operating_expenses ==
    << "o", "p", "e", "r", "a", "t", "i", "n", "g", "_", "e", "x", "p", "e", "n", "s", "e", "s" >>

col_other_income ==
    << "o", "t", "h", "e", "r", "_", "i", "n", "c", "o", "m", "e" >>

col_other_expenses ==
    << "o", "t", "h", "e", "r", "_", "e", "x", "p", "e", "n", "s", "e", "s" >>

col_account ==
    << "a", "c", "c", "o", "u", "n", "t" >>

col_amount ==
    << "a", "m", "o", "u", "n", "t" >>

\* The keys of cols = {c.lower().strip(): c for c in df.columns}, column
\* by column.
RECURSIVE normalised(_)
normalised(columns) ==
    IF columns = << >> THEN << >>
    ELSE << strip(lower(Head(columns))) >> \o normalised(Tail(columns))

\* name in cols
in_cols(cols, name) == \E j \in 1..Len(cols) : cols[j] = name

\* cols[name]: the column the key stands for, the last one of several.
cols_get(cols, name) ==
    CHOOSE j \in 1..Len(cols) :
        /\ cols[j] = name
        /\ \A k \in (j + 1)..Len(cols) : cols[k] # name

\* The amount of a cell; a cell that is not a number (NaN) adds nothing.
amount_of(cell) == IF cell.t \in {"int", "float"} THEN cell.n ELSE 0

\* The sum of column j over the rows from r on.
RECURSIVE sum_rows(_, _, _)
sum_rows(df, j, r) ==
    IF r > Len(df.rows) THEN 0
    ELSE amount_of(df.rows[r][j]) + sum_rows(df, j, r + 1)

\* df[cols.get(name)].sum() if name in cols else 0.0
column_sum(df, cols, name) ==
    IF in_cols(cols, name) THEN sum_rows(df, cols_get(cols, name), 1) ELSE 0

\* Whether the lower-case text has one of the alternatives.
matches_any(text, keywords) == \E kw \in keywords : contains(text, kw)

\* str.contains(pattern, case=False, na=False) on one Account cell
account_matches(account, keywords) ==
    /\ account.t = "str"
    /\ matches_any(lower(account.s), keywords)

\* The sum of the Amount column (jm) over the rows from r on whose Account
\* (column ja) matches the pattern.
RECURSIVE sum_matching(_, _, _, _, _)
sum_matching(df, ja, jm, r, keywords) ==
    IF r > Len(df.rows) THEN 0
    ELSE (IF account_matches(df.rows[r][ja], keywords)
          THEN amount_of(df.rows[r][jm]) ELSE 0)
         + sum_matching(df, ja, jm, r + 1, keywords)

\* Mutant of ledger_sum: the ledger is read as soon as there is an account
\* column, the amounts taken from the last column when none is named so.
ledger_sum_account_only(df, cols, keywords) ==
    IF in_cols(cols, col_account)
    THEN sum_matching(df, cols_get(cols, col_account),
                      IF in_cols(cols, col_amount)
                      THEN cols_get(cols, col_amount) ELSE Len(cols),
                      1, keywords)
    ELSE 0

\* tmp[tmp["Account"].str.contains(pattern)]["Amount"].sum(), and nothing
\* when the dataset has no account or no amount column.
ledger_sum(df, cols, keywords) ==
    IF in_cols(cols, col_account) /\ in_cols(cols, col_amount)
    THEN sum_matching(df, cols_get(cols, col_account),
                      cols_get(cols, col_amount), 1, keywords)
    ELSE 0

\* The body of auto_map_pl once cols is built.
map_pl(df, cols) ==
    [revenue |-> column_sum(df, cols, col_revenue)
                 + ledger_sum(df, cols, revenue_keywords),
     cogs |-> column_sum(df, cols, col_cogs)
              + ledger_sum(df, cols, cogs_keywords),
     opex |-> column_sum(df, cols, col_operating_expenses)
              + ledger_sum(df, cols, opex_keywords),
     other_income |-> column_sum(df, cols, col_other_income)
                      + ledger_sum(df, cols, other_income_keywords),
     other_expenses |-> column_sum(df, cols, col_other_expenses)
                        + ledger_sum(df, cols, other_expenses_keywords)]

\* The first of the five patterns that an Account cell matches, 0 for none.
first_bucket(account) ==
    IF account_matches(account, revenue_keywords) THEN 1
    ELSE IF account_matches(account, cogs_keywords) THEN 2
    ELSE IF account_matches(account, opex_keywords) THEN 3
    ELSE IF account_matches(account, other_income_keywords) THEN 4
    ELSE IF account_matches(account, other_expenses_keywords) THEN 5
    ELSE 0

RECURSIVE sum_first(_, _, _, _, _)
sum_first(df, ja, jm, r, b) ==
    IF r > Len(df.rows) THEN 0
    ELSE (IF first_bucket(df.rows[r][ja]) = b
          THEN amount_of(df.rows[r][jm]) ELSE 0)
         + sum_first(df, ja, jm, r + 1, b)

ledger_first(df, cols, b) ==
    IF in_cols(cols, col_account) /\ in_cols(cols, col_amount)
    THEN sum_first(df, cols_get(cols, col_account),
                   cols_get(cols, col_amount), 1, b)
    ELSE 0

map_pl_exclusive(df, cols) ==
    [revenue |-> column_sum(df, cols, col_revenue) + ledger_first(df, cols, 1),
     cogs |-> column_sum(df, cols, col_cogs) + ledger_first(df, cols, 2),
     opex |-> column_sum(df, cols, col_operating_expenses)
              + ledger_first(df, cols, 3),
     other_income |-> column_sum(df, cols, col_other_income)
                      + ledger_first(df, cols, 4),
     other_expenses |-> column_sum(df, cols, col_other_expenses)
                        + ledger_first(df, cols, 5)]

\* Mutant of auto_map_pl: a ledger row is counted in the first bucket it
\* matches and in no other.
auto_map_pl_exclusive(df) == map_pl_exclusive(df, normalised(df.columns))

map_pl_ledger_only(df, cols) ==
    IF in_cols(cols, col_account) /\ in_cols(cols, col_amount)
    THEN [revenue |-> ledger_sum(df, cols, revenue_keywords),
          cogs |-> ledger_sum(df, cols, cogs_keywords),
          opex |-> ledger_sum(df, cols, opex_keywords),
          other_income |-> ledger_sum(df, cols, other_income_keywords),
          other_expenses |-> ledger_sum(df, cols, other_expenses_keywords)]
    ELSE [revenue |-> column_sum(df, cols, col_revenue),
          cogs |-> column_sum(df, cols, col_cogs),
          opex |-> column_sum(df, cols, col_operating_expenses),
          other_income |-> column_sum(df, cols, col_other_income),
          other_expenses |-> column_sum(df, cols, col_other_expenses)]

\* Mutant of auto_map_pl: a dataset with a ledger is mapped from the ledger
\* alone.
auto_map_pl_ledger_only(df) == map_pl_ledger_only(df, normalised(df.columns))

auto_map_pl(df) == map_pl(df, normalised(df.columns))

\* Whether the parsers give column j the object dtype: a column without
\* rows, or with text in some cell.  A column of numbers and empty cells
\* alone is numeric.
object_dtype(df, j) ==
    df.rows = << >> \/ \E r \in 1..Len(df.rows) : df.rows[r][j].t = "str"

\* tmp["Account"].str raises AttributeError on a numeric column; the
\* explicit columns are summed before that and lost with it.
str_accessor_raises(df, cols) ==
    /\ in_cols(cols, col_account)
    /\ in_cols(cols, col_amount)
    /\ ~object_dtype(df, cols_get(cols, col_account))

auto_map_pl_raises(df) == str_accessor_raises(df, normalised(df.columns))

(***************************************************************************)
(* State.                                                                  *)
(***************************************************************************)
VARIABLES
    script,                    \* which of the three scripts this session runs
    \* mvp_streamlit_app.py: sidebar
    taxpayer_type, company_rate, brackets_json, individual_brackets,
    \* tab 2 and tab 3 widgets
    mapped_values, addbacks, allowables,
    capital_allowances, exemptions, credits_wht, credits_foreign, rebates,
    provisional_tax_paid,
    \* tab 3 figures
    pbit, total_addbacks, adjusted_profit, total_allowables,
    chargeable_income, adjusted_taxable_income, gross_tax, net_tax_payable,
    net_tax_after_provisional,
    \* uganda_tax_full_mvp.py and uganda_tax_full_mvp_streamlit_app.py
    basic, full

\* A caller of validate_and_build_return: the form code and the payload it
\* holds, and what its last call gave.
VARIABLES form_code, payload, built

\* Tab 1: st.session_state["pl_df"], the imported dataset.
VARIABLES pl_df

\* The rows of the table income_tax_history, in the order of their insertion.
VARIABLES history

sidebar == << taxpayer_type, company_rate, brackets_json, individual_brackets >>
widgets == << mapped_values, addbacks, allowables, capital_allowances,
              exemptions, credits_wht, credits_foreign, rebates,
              provisional_tax_paid >>
figures == << pbit, total_addbacks, adjusted_profit, total_allowables,
              chargeable_income, adjusted_taxable_income, gross_tax,
              net_tax_payable, net_tax_after_provisional >>
main == << sidebar, widgets, figures >>
builder == << form_code, payload, built >>
vars == << script, main, basic, full, builder, pl_df, history >>

Scripts == {"mvp_streamlit_app", "uganda_tax_full_mvp",
            "uganda_tax_full_mvp_streamlit_app"}

\* The labels of the two ledgers that the model keeps (of 70 and 56).
addbacks_labels == {"Depreciation (Section 22(3)(b))", "Amortisation"}
allowables_labels == {"Wear & Tear (Section 27(1))",
                      "Startup Costs (25%) (Section 28)"}
PLKeys == {"revenue", "cogs", "opex", "other_income", "other_expenses"}
Tab3Inputs == {"capital_allowances", "exemptions", "credits_wht",
               "credits_foreign", "rebates", "provisional_tax_paid"}

\* sum(d.values())
RECURSIVE sum_over(_, _)
sum_over(d, keys) ==
    IF keys = {} THEN 0
    ELSE LET k == CHOOSE x \in keys : TRUE
         IN  d[k] + sum_over(d, keys \ {k})

sum_values(d) == sum_over(d, DOMAIN d)

(***************************************************************************)
(* Tab 3 of mvp_streamlit_app.py: the figures of one run of the script.    *)
(***************************************************************************)
Pbit(mv) ==
    (mv.revenue + mv.other_income) - (mv.cogs + mv.opex + mv.other_expenses)

\* Mutant of AdjustedProfit: a loss is floored at zero.
AdjustedProfitFloored(pbit_, total_addbacks_) ==
    max0(pbit_ + total_addbacks_)

AdjustedProfit(pbit_, total_addbacks_) == pbit_ + total_addbacks_

\* Mutant of ChargeableIncome: no floor.
ChargeableIncomeUnfloored(adjusted_profit_, total_allowables_) ==
    adjusted_profit_ - total_allowables_

ChargeableIncome(adjusted_profit_, total_allowables_) ==
    max0(adjusted_profit_ - total_allowables_)

\* Mutant of AdjustedTaxableIncome: the tax base is the chargeable income.
TaxableIsChargeable(chargeable_income_, capital_allowances_, exemptions_) ==
    chargeable_income_

AdjustedTaxableIncome(chargeable_income_, capital_allowances_, exemptions_) ==
    max0(chargeable_income_ - capital_allowances_ - exemptions_)

GrossTax(type, taxable, rate, brackets) ==
    IF type = "company"
    THEN compute_company_tax(taxable, rate)
    ELSE compute_individual_tax_brackets(taxable, brackets)

\* Mutant of NetTaxAfterProvisional: an overpayment shows as a negative.
NetTaxAfterProvisionalSigned(net_tax_payable_, provisional_tax_paid_) ==
    net_tax_payable_ - provisional_tax_paid_

NetTaxAfterProvisional(net_tax_payable_, provisional_tax_paid_) ==
    max0(net_tax_payable_ - provisional_tax_paid_)

\* One run of the script over the widget values of the next state: the
\* figures, in the order the script computes them.
Rerun ==
    /\ pbit' = Pbit(mapped_values')
    /\ total_addbacks' = sum_values(addbacks')
    /\ adjusted_profit' = AdjustedProfit(pbit', total_addbacks')
    /\ total_allowables' = sum_values(allowables')
    /\ chargeable_income' = ChargeableIncome(adjusted_profit', total_allowables')
    /\ adjusted_taxable_income' =
           AdjustedTaxableIncome(chargeable_income', capital_allowances',
                                 exemptions')
    /\ gross_tax' = GrossTax(taxpayer_type', adjusted_taxable_income',
                             company_rate', individual_brackets')
    /\ net_tax_payable' =
           apply_credits_and_rebates(gross_tax', credits_wht',
                                     credits_foreign', rebates')
    /\ net_tax_after_provisional' =
           NetTaxAfterProvisional(net_tax_payable', provisional_tax_paid')

(***************************************************************************)
(* uganda_tax_full_mvp.py: one run over the widget values w; clicked is    *)
(* the value of the "Compute Tax" button in this run.                      *)
(***************************************************************************)
BasicWidgets == {"pbit", "depreciation", "amortisation", "wear_and_tear",
                 "industrial_building_allowance", "provisional_taxes_paid",
                 "withholding_taxes"}

BasicFinalTax(income_tax, provisional_taxes_paid, withholding_taxes) ==
    income_tax - provisional_taxes_paid - withholding_taxes

BasicChargeableIncome(adjusted_profit_, allowables_) ==
    adjusted_profit_ - allowables_

basic_run(w, clicked) ==
    LET ab == w.depreciation + w.amortisation
        al == w.wear_and_tear + w.industrial_building_allowance
        ap == w.pbit + ab
        ci == BasicChargeableIncome(ap, al)
        it == round2(Times(ci, 30))
        ft == BasicFinalTax(it, w.provisional_taxes_paid, w.withholding_taxes)
    IN  [w |-> w, addbacks |-> ab, allowables |-> al, adjusted_profit |-> ap,
         chargeable_income |-> ci, income_tax |-> it, final_tax |-> ft,
         shown |-> IF ~clicked THEN "Click the Compute Tax button"
                   ELSE IF ft >= 0 THEN "Final Tax Payable"
                   ELSE "Tax Refund Due",
         shown_amount |-> IF ~clicked THEN 0
                          ELSE IF ft >= 0 THEN ft ELSE -ft]

(***************************************************************************)
(* uganda_tax_full_mvp_streamlit_app.py: one run over the widget values w. *)
(* tax_payable and final_tax_payable are not rounded by the script: they   *)
(* are exact decimals.                                                     *)
(***************************************************************************)
TAX_RATE == 30

FullWidgets == {"pbit", "1. Depreciation", "41. Dividends Paid",
                "64. Dividends Paid (duplicate)", "1. Wear & Tear",
                "provisional_tax", "withholding_tax",
                "increase_in_provision", "decrease_in_provision"}

\* d[key] = val on a dict
assign(d, key, val) ==
    [x \in (DOMAIN d) \cup {key} |-> IF x = key THEN val ELSE d[x]]

empty_dict == [x \in {} |-> 0]

\* Mutant of full_addbacks: a name assigned twice adds up both amounts.
full_addbacks_adding(w) ==
    LET d1 == assign(empty_dict, "Depreciation (Section 22(3)(b))",
                     w["1. Depreciation"])
    IN  assign(d1, "Dividends Paid (Section 22(3)(d))",
               w["41. Dividends Paid"] + w["64. Dividends Paid (duplicate)"])

\* The assignments addbacks['...'] = st.number_input(...), in their order.
full_addbacks(w) ==
    LET d1 == assign(empty_dict, "Depreciation (Section 22(3)(b))",
                     w["1. Depreciation"])
        d2 == assign(d1, "Dividends Paid (Section 22(3)(d))",
                     w["41. Dividends Paid"])
    IN  assign(d2, "Dividends Paid (Section 22(3)(d))",
               w["64. Dividends Paid (duplicate)"])

full_allowables(w) ==
    assign(empty_dict, "Wear & Tear (Section 27(1))", w["1. Wear & Tear"])

FullChargeableIncome(adjusted_profit_, total_allowables_) ==
    adjusted_profit_ - total_allowables_

FullFinalTaxPayable(tax_payable, provisional_tax, withholding_tax) ==
    [c |-> tax_payable.c - provisional_tax - withholding_tax,
     f |-> tax_payable.f]

full_run(w) ==
    LET ab == full_addbacks(w)
        ap == w.pbit + sum_values(ab)
        al == full_allowables(w)
        tal == sum_values(al)
        ci == FullChargeableIncome(ap, tal)
        cia == ci + w.increase_in_provision - w.decrease_in_provision
        tp == Times(cia, TAX_RATE)
        ftp == FullFinalTaxPayable(tp, w.provisional_tax, w.withholding_tax)
    IN  [w |-> w, addbacks |-> ab, adjusted_profit |-> ap, allowables |-> al,
         total_allowables |-> tal, chargeable_income |-> ci,
         chargeable_income_adjusted |-> cia, tax_payable |-> tp,
         final_tax_payable |-> ftp,
         claimable_note |-> ftp.c < 0]

(***************************************************************************)
(* Tab 5 of mvp_streamlit_app.py while its widgets are at their defaults   *)
(* and nothing is saved: the form of the taxpayer type and its payload.    *)
(***************************************************************************)
\* The sidebar's year and period label.
tax_year == 2024
period_label == << "F", "Y" >> \o digits_of(tax_year)

form_code_of(type) == IF type = "company" THEN "DT-2002" ELSE "DT-2001"

default_payload(code) ==
    IF code = "DT-2001"
    THEN << [key |-> "TIN", val |-> StrV(<< >>)],
            [key |-> "Taxpayer Name", val |-> StrV(<< >>)],
            [key |-> "Period", val |-> StrV(period_label)],
            [key |-> "Year", val |-> IntV(tax_year)],
            [key |-> "Business Income (UGX)", val |-> FloatV(0)],
            [key |-> "Allowable Deductions (UGX)", val |-> FloatV(0)],
            [key |-> "Capital Allowances (UGX)", val |-> FloatV(0)],
            [key |-> "Exemptions (UGX)", val |-> FloatV(0)],
            [key |-> "Taxable Income (UGX)", val |-> FloatV(max0(0 - 0 - 0 - 0))],
            [key |-> "Gross Tax (UGX)", val |-> FloatV(0)],
            [key |-> "WHT Credits (UGX)", val |-> FloatV(0)],
            [key |-> "Foreign Tax Credit (UGX)", val |-> FloatV(0)],
            [key |-> "Rebates (UGX)", val |-> FloatV(0)],
            [key |-> "Net Tax Payable (UGX)", val |-> FloatV(max0(0 - 0 - 0 - 0))] >>
    ELSE << [key |-> "TIN", val |-> StrV(<< >>)],
            [key |-> "Entity Name", val |-> StrV(<< >>)],
            [key |-> "Period", val |-> StrV(period_label)],
            [key |-> "Year", val |-> IntV(tax_year)],
            [key |-> "Gross Turnover (UGX)", val |-> FloatV(0)],
            [key |-> "COGS (UGX)", val |-> FloatV(0)],
            [key |-> "Operating Expenses (UGX)", val |-> FloatV(0)],
            [key |-> "Other Income (UGX)", val |-> FloatV(0)],
            [key |-> "Other Expenses (UGX)", val |-> FloatV(0)],
            [key |-> "Capital Allowances (UGX)", val |-> FloatV(0)],
            [key |-> "Exemptions (UGX)", val |-> FloatV(0)],
            [key |-> "Taxable Income (UGX)", val |-> FloatV(max0((0 + 0) - (0 + 0 + 0) - 0 - 0))],
            [key |-> "Gross Tax (UGX)", val |-> FloatV(0)],
            [key |-> "WHT Credits (UGX)", val |-> FloatV(0)],
            [key |-> "Foreign Tax Credit (UGX)", val |-> FloatV(0)],
            [key |-> "Rebates (UGX)", val |-> FloatV(0)],
            [key |-> "Net Tax Payable (UGX)", val |-> FloatV(max0(0 - 0 - 0 - 0))] >>

\* Mutant of export_payload: the net tax is the plain difference.
export_payload_unfloored(code, w) ==
    dict_set(
        dict_set(
            dict_set(
                dict_set(
                    dict_set(default_payload(code), "Gross Tax (UGX)",
                             dict_get(w, "Gross Tax (UGX)")),
                    "WHT Credits (UGX)", dict_get(w, "WHT Credits (UGX)")),
                "Foreign Tax Credit (UGX)",
                dict_get(w, "Foreign Tax Credit (UGX)")),
            "Rebates (UGX)", dict_get(w, "Rebates (UGX)")),
        "Net Tax Payable (UGX)",
        FloatV(dict_get(w, "Gross Tax (UGX)").n
               - dict_get(w, "WHT Credits (UGX)").n
               - dict_get(w, "Foreign Tax Credit (UGX)").n
               - dict_get(w, "Rebates (UGX)").n))

\* The payload of the export tab over the values w of its widgets, each
\* widget under the key its value is stored at.
export_payload(code, w) ==
    IF code = "DT-2001"
    THEN << [key |-> "TIN", val |-> dict_get(w, "TIN")],
            [key |-> "Taxpayer Name", val |-> dict_get(w, "Taxpayer Name")],
            [key |-> "Period", val |-> StrV(period_label)],
            [key |-> "Year", val |-> IntV(tax_year)],
            [key |-> "Business Income (UGX)",
             val |-> dict_get(w, "Business Income (UGX)")],
            [key |-> "Allowable Deductions (UGX)",
             val |-> dict_get(w, "Allowable Deductions (UGX)")],
            [key |-> "Capital Allowances (UGX)",
             val |-> dict_get(w, "Capital Allowances (UGX)")],
            [key |-> "Exemptions (UGX)",
             val |-> dict_get(w, "Exemptions (UGX)")],
            [key |-> "Taxable Income (UGX)",
             val |-> FloatV(max0(dict_get(w, "Business Income (UGX)").n
                                 - dict_get(w, "Allowable Deductions (UGX)").n
                                 - dict_get(w, "Capital Allowances (UGX)").n
                                 - dict_get(w, "Exemptions (UGX)").n))],
            [key |-> "Gross Tax (UGX)",
             val |-> dict_get(w, "Gross Tax (UGX)")],
            [key |-> "WHT Credits (UGX)",
             val |-> dict_get(w, "WHT Credits (UGX)")],
            [key |-> "Foreign Tax Credit (UGX)",
             val |-> dict_get(w, "Foreign Tax Credit (UGX)")],
            [key |-> "Rebates (UGX)", val |-> dict_get(w, "Rebates (UGX)")],
            [key |-> "Net Tax Payable (UGX)",
             val |-> FloatV(max0(dict_get(w, "Gross Tax (UGX)").n
                                 - dict_get(w, "WHT Credits (UGX)").n
                                 - dict_get(w, "Foreign Tax Credit (UGX)").n
                                 - dict_get(w, "Rebates (UGX)").n))] >>
    ELSE << [key |-> "TIN", val |-> dict_get(w, "TIN")],
            [key |-> "Entity Name", val |-> dict_get(w, "Entity Name")],
            [key |-> "Period", val |-> StrV(period_label)],
            [key |-> "Year", val |-> IntV(tax_year)],
            [key |-> "Gross Turnover (UGX)",
             val |-> dict_get(w, "Gross Turnover (UGX)")],
            [key |-> "COGS (UGX)", val |-> dict_get(w, "COGS (UGX)")],
            [key |-> "Operating Expenses (UGX)",
             val |-> dict_get(w, "Operating Expenses (UGX)")],
            [key |-> "Other Income (UGX)",
             val |-> dict_get(w, "Other Income (UGX)")],
            [key |-> "Other Expenses (UGX)",
             val |-> dict_get(w, "Other Expenses (UGX)")],
            [key |-> "Capital Allowances (UGX)",
             val |-> dict_get(w, "Capital Allowances (UGX)")],
            [key |-> "Exemptions (UGX)",
             val |-> dict_get(w, "Exemptions (UGX)")],
            [key |-> "Taxable Income (UGX)",
             val |-> FloatV(max0((dict_get(w, "Gross Turnover (UGX)").n
                                  + dict_get(w, "Other Income (UGX)").n)
                                 - (dict_get(w, "COGS (UGX)").n
                                    + dict_get(w, "Operating Expenses (UGX)").n
                                    + dict_get(w, "Other Expenses (UGX)").n)
                                 - dict_get(w, "Capital Allowances (UGX)").n
                                 - dict_get(w, "Exemptions (UGX)").n))],
            [key |-> "Gross Tax (UGX)",
             val |-> dict_get(w, "Gross Tax (UGX)")],
            [key |-> "WHT Credits (UGX)",
             val |-> dict_get(w, "WHT Credits (UGX)")],
            [key |-> "Foreign Tax Credit (UGX)",
             val |-> dict_get(w, "Foreign Tax Credit (UGX)")],
            [key |-> "Rebates (UGX)", val |-> dict_get(w, "Rebates (UGX)")],
            [key |-> "Net Tax Payable (UGX)",
             val |-> FloatV(max0(dict_get(w, "Gross Tax (UGX)").n
                                 - dict_get(w, "WHT Credits (UGX)").n
                                 - dict_get(w, "Foreign Tax Credit (UGX)").n
                                 - dict_get(w, "Rebates (UGX)").n))] >>

\* What is known of the calls of validate_and_build_return: whether there
\* was one, whether the last one (fresh) or the last two (repeated) were
\* made with the arguments as they are now, the arguments and the outcome
\* of the last one, the outcome of the one before, and whether the last call
\* (ok) and the one before it (ok_before) returned.  An edit of the
\* arguments forgets the outcomes.
NoResult == Failed(NoError)

NotBuilt ==
    [called |-> FALSE, fresh |-> FALSE, repeated |-> FALSE, ok |-> TRUE,
     ok_before |-> TRUE, form_code |-> "", payload |-> << >>,
     result |-> NoResult, previous |-> NoResult]

\* The dataset of a session that has imported nothing.
NoData == [loaded |-> FALSE, columns |-> << >>, rows |-> << >>]

(***************************************************************************)
(* The state after the first run of a script: every widget at its default. *)
(***************************************************************************)
Init ==
    /\ script \in Scripts
    /\ taxpayer_type = "company"
    /\ company_rate = 30
    /\ brackets_json = [valid |-> TRUE, tiers |-> default_brackets]
    /\ individual_brackets = load_brackets(brackets_json)
    /\ mapped_values = [k \in PLKeys |-> 0]
    /\ addbacks = [l \in addbacks_labels |-> 0]
    /\ allowables = [l \in allowables_labels |-> 0]
    /\ capital_allowances = 0
    /\ exemptions = 0
    /\ credits_wht = 0
    /\ credits_foreign = 0
    /\ rebates = 0
    /\ provisional_tax_paid = 0
    /\ pbit = 0
    /\ total_addbacks = 0
    /\ adjusted_profit = 0
    /\ total_allowables = 0
    /\ chargeable_income = 0
    /\ adjusted_taxable_income = 0
    /\ gross_tax = 0
    /\ net_tax_payable = 0
    /\ net_tax_after_provisional = 0
    /\ basic = basic_run([k \in BasicWidgets |-> 0], FALSE)
    /\ full = full_run([k \in FullWidgets |-> 0])
    /\ form_code = form_code_of(taxpayer_type)
    /\ payload = default_payload(form_code)
    /\ built = NotBuilt
    /\ history = << >>
    /\ pl_df = NoData

(***************************************************************************)
(* The user's edits.  Each reruns its script.                              *)
(***************************************************************************)
InMain == script = "mvp_streamlit_app"

\* Sidebar: the taxpayer type selectbox.
SelectTaxpayerType(t) ==
    /\ InMain
    /\ taxpayer_type' = t
    /\ UNCHANGED << script, history, builder, pl_df, company_rate, brackets_json, individual_brackets,
                    widgets, basic, full >>
    /\ Rerun

\* Sidebar: the company rate number input (0.0 to 1.0).
SetCompanyRate(r) ==
    /\ InMain
    /\ company_rate' = r
    /\ UNCHANGED << script, history, builder, pl_df, taxpayer_type, brackets_json, individual_brackets,
                    widgets, basic, full >>
    /\ Rerun

\* Sidebar: the brackets JSON text area, loaded on every run.
EditBracketsJson(json) ==
    /\ InMain
    /\ brackets_json' = json
    /\ individual_brackets' = load_brackets(json)
    /\ UNCHANGED << script, history, builder, pl_df, taxpayer_type, company_rate, widgets, basic, full >>
    /\ Rerun

\* The user adds a tier at the end of the JSON list.
AppendTier(t) ==
    /\ brackets_json.valid
    /\ Len(brackets_json.tiers) < MaxTiers
    /\ EditBracketsJson([valid |-> TRUE, tiers |-> Append(brackets_json.tiers, t)])

\* The user empties the JSON list.
ClearTiers == EditBracketsJson([valid |-> TRUE, tiers |-> << >>])

\* The user restores the built-in table.
RestoreDefaultTiers ==
    EditBracketsJson([valid |-> TRUE, tiers |-> default_brackets])

\* The user leaves text in the box that does not load.
TypeInvalidJson == EditBracketsJson([valid |-> FALSE, tiers |-> << >>])

\* Tab 2: one of the five P&L number inputs.
EditMapped(k, v) ==
    /\ InMain
    /\ mapped_values' = [mapped_values EXCEPT ![k] = v]
    /\ UNCHANGED << script, history, builder, pl_df, sidebar, addbacks, allowables, capital_allowances,
                    exemptions, credits_wht, credits_foreign, rebates,
                    provisional_tax_paid, basic, full >>
    /\ Rerun

\* Tab 3: one input of the addbacks expander.
EditAddback(l, v) ==
    /\ InMain
    /\ addbacks' = [addbacks EXCEPT ![l] = v]
    /\ UNCHANGED << script, history, builder, pl_df, sidebar, mapped_values, allowables,
                    capital_allowances, exemptions, credits_wht,
                    credits_foreign, rebates, provisional_tax_paid, basic,
                    full >>
    /\ Rerun

\* Tab 3: one input of the allowables expander.
EditAllowable(l, v) ==
    /\ InMain
    /\ allowables' = [allowables EXCEPT ![l] = v]
    /\ UNCHANGED << script, history, builder, pl_df, sidebar, mapped_values, addbacks,
                    capital_allowances, exemptions, credits_wht,
                    credits_foreign, rebates, provisional_tax_paid, basic,
                    full >>
    /\ Rerun

\* Tab 3: one of the six number inputs of the credits section.
EditTab3(name, v) ==
    /\ InMain
    /\ capital_allowances' =
           IF name = "capital_allowances" THEN v ELSE capital_allowances
    /\ exemptions' = IF name = "exemptions" THEN v ELSE exemptions
    /\ credits_wht' = IF name = "credits_wht" THEN v ELSE credits_wht
    /\ credits_foreign' =
           IF name = "credits_foreign" THEN v ELSE credits_foreign
    /\ rebates' = IF name = "rebates" THEN v ELSE rebates
    /\ provisional_tax_paid' =
           IF name = "provisional_tax_paid" THEN v ELSE provisional_tax_paid
    /\ UNCHANGED << script, history, builder, pl_df, sidebar, mapped_values, addbacks, allowables,
                    basic, full >>
    /\ Rerun

\* uganda_tax_full_mvp.py: a number input is edited (the button reads False).
BasicEdit(k, v) ==
    /\ script = "uganda_tax_full_mvp"
    /\ basic' = basic_run([basic.w EXCEPT ![k] = v], FALSE)
    /\ UNCHANGED << script, history, builder, pl_df, main, full >>

\* uganda_tax_full_mvp.py: the "Compute Tax" button is clicked.
BasicComputeTax ==
    /\ script = "uganda_tax_full_mvp"
    /\ basic' = basic_run(basic.w, TRUE)
    /\ UNCHANGED << script, history, builder, pl_df, main, full >>

\* uganda_tax_full_mvp_streamlit_app.py: a number input is edited.
FullEdit(k, v) ==
    /\ script = "uganda_tax_full_mvp_streamlit_app"
    /\ full' = full_run([full.w EXCEPT ![k] = v])
    /\ UNCHANGED << script, history, builder, pl_df, main, basic >>

\* A caller changes its arguments: the outcomes of the calls made with the
\* old ones are gone.
Forget ==
    built' = [built EXCEPT !.fresh = FALSE, !.repeated = FALSE,
                           !.form_code = "", !.payload = << >>,
                           !.result = NoResult, !.previous = NoResult]

\* The caller takes the export tab's form and payload of a taxpayer type.
AssemblePayload(type) ==
    /\ InMain
    /\ form_code' = form_code_of(type)
    /\ payload' = default_payload(form_code')
    /\ Forget
    /\ UNCHANGED << script, history, main, basic, full, pl_df >>

\* The caller names another form.
SetFormCode(code) ==
    /\ InMain
    /\ form_code' = code
    /\ Forget
    /\ UNCHANGED << script, history, main, basic, full, pl_df, payload >>

\* payload[key] = val
SetField(key, val) ==
    /\ InMain
    /\ payload' = dict_set(payload, key, val)
    /\ Forget
    /\ UNCHANGED << script, history, main, basic, full, pl_df, form_code >>

\* del payload[key]
DelField(key) ==
    /\ InMain
    /\ dict_has(payload, key)
    /\ payload' = dict_del(payload, key)
    /\ Forget
    /\ UNCHANGED << script, history, main, basic, full, pl_df, form_code >>

\* Mutant of ValidateAndBuild: the call takes the values out of the payload
\* (payload.pop(field)) as far as it gets.
ValidateAndBuildPopping ==
    /\ InMain
    /\ built' = [called |-> TRUE, fresh |-> TRUE, repeated |-> built.fresh,
                 ok |-> validate_and_build_return(form_code, payload).ok,
                 ok_before |-> built.ok,
                 form_code |-> form_code, payload |-> payload,
                 result |-> validate_and_build_return(form_code, payload),
                 previous |-> built.result]
    /\ payload' = IF form_code \in DOMAIN URA_SCHEMAS
                  THEN dict_del(payload, URA_SCHEMAS[form_code].fields[1][1])
                  ELSE payload
    /\ UNCHANGED << script, history, main, basic, full, pl_df, form_code >>

\* Mutant of ValidateAndBuild: a call after a failed one fails the same way.
ValidateAndBuildSticky ==
    /\ InMain
    /\ built' = [called |-> TRUE, fresh |-> TRUE, repeated |-> built.fresh,
                 ok |-> built.ok
                        /\ validate_and_build_return(form_code, payload).ok,
                 ok_before |-> built.ok,
                 form_code |-> form_code, payload |-> payload,
                 result |-> IF built.ok
                            THEN validate_and_build_return(form_code, payload)
                            ELSE Failed(Raise("ValueError", "", "", "", << >>)),
                 previous |-> built.result]
    /\ UNCHANGED << script, history, main, basic, full, pl_df, form_code, payload >>

\* The call validate_and_build_return(form_code, payload): it reads its
\* arguments and returns a frame or raises.
ValidateAndBuild ==
    /\ InMain
    /\ built' = [called |-> TRUE, fresh |-> TRUE, repeated |-> built.fresh,
                 ok |-> validate_and_build_return(form_code, payload).ok,
                 ok_before |-> built.ok,
                 form_code |-> form_code, payload |-> payload,
                 result |-> validate_and_build_return(form_code, payload),
                 previous |-> built.result]
    /\ UNCHANGED << script, history, main, basic, full, pl_df, form_code, payload >>

\* Tab 1: a file with one row is uploaded and parsed; a dataset that is not
\* empty replaces st.session_state["pl_df"].  The rerun finds the widgets
\* as they were.
Upload(columns, row) ==
    /\ InMain
    /\ Len(row) = Len(columns)
    /\ pl_df' = [loaded |-> TRUE, columns |-> columns, rows |-> << row >>]
    /\ UNCHANGED << script, history, main, basic, full, builder >>

\* Tab 1: a file with the rows of the present dataset and one more.
UploadLonger(row) ==
    /\ InMain
    /\ pl_df.loaded
    /\ Len(pl_df.rows) < MaxRows
    /\ Len(row) = Len(pl_df.columns)
    /\ pl_df' = [pl_df EXCEPT !.rows = Append(pl_df.rows, row)]
    /\ UNCHANGED << script, history, main, basic, full, builder >>

\* A dataset without rows in pl_df.  The upload tab keeps such a dataset
\* out (line 266, df.empty); a caller of auto_map_pl can pass one.
PassEmpty(columns) ==
    /\ InMain
    /\ pl_df' = [loaded |-> TRUE, columns |-> columns, rows |-> << >>]
    /\ UNCHANGED << script, history, main, basic, full, builder >>

\* Tab 2: the button "Auto-Map P&L from uploaded file" stores the five
\* sums in mapped_values; the number inputs show them and tab 3 follows.
\* When auto_map_pl raises, the run ends there and nothing is stored.
AutoMap ==
    /\ InMain
    /\ pl_df.loaded
    /\ mapped_values' = IF auto_map_pl_raises(pl_df) THEN mapped_values
                        ELSE auto_map_pl(pl_df)
    /\ UNCHANGED << script, history, builder, pl_df, sidebar, addbacks, allowables,
                    capital_allowances, exemptions, credits_wht,
                    credits_foreign, rebates, provisional_tax_paid, basic,
                    full >>
    /\ Rerun

(***************************************************************************)
(* Specifications.  Each is a session in which the user edits a part of    *)
(* the widgets and leaves the others at their defaults.                    *)
(***************************************************************************)
TaxpayerTypes == {"company", "individual"}

\* Taxable incomes: small ones, and the incomes around the built-in
\* table's thresholds (in cents).
Incomes ==
    (0..MaxIncome) \cup
    {100000000, 402000000, 500000000, 1000000000, 1000000100}

InitMain == Init /\ InMain

\* The reduction chain of the main script, and the final tax of the two
\* single-page scripts.
Next ==
    \/ \E t \in TaxpayerTypes : SelectTaxpayerType(t)
    \/ \E r \in {30, 100} : SetCompanyRate(r)
    \/ \E v \in (0..MaxIncome) \cup {500000000} : EditMapped("revenue", v)
    \/ \E n \in Tab3Inputs, v \in Amounts : EditTab3(n, v)
    \/ \E k \in {"pbit", "provisional_taxes_paid", "withholding_taxes"},
          v \in 0..MaxIncome : BasicEdit(k, v)
    \/ BasicComputeTax
    \/ \E k \in {"pbit", "provisional_tax", "withholding_tax"},
          v \in 0..MaxIncome : FullEdit(k, v)

Spec == Init /\ [][Next]_vars

\* Every amount of the main script either absent or large.
NextFloor ==
    \/ \E t \in TaxpayerTypes : SelectTaxpayerType(t)
    \/ \E k \in PLKeys, v \in {0, MaxAmt} : EditMapped(k, v)
    \/ \E v \in {0, MaxAmt} : EditAddback("Amortisation", v)
    \/ \E v \in {0, MaxAmt} : EditAllowable("Wear & Tear (Section 27(1))", v)
    \/ \E n \in Tab3Inputs, v \in {0, MaxAmt} : EditTab3(n, v)

SpecFloor == InitMain /\ [][NextFloor]_vars

\* The adjustment ledger: P&L, addbacks and allowables.
NextLedger ==
    \/ \E k \in PLKeys, v \in Amounts : EditMapped(k, v)
    \/ \E l \in addbacks_labels, v \in Amounts : EditAddback(l, v)
    \/ \E v \in Amounts : EditAllowable("Wear & Tear (Section 27(1))", v)
    \/ \E k \in {"pbit", "depreciation", "amortisation", "wear_and_tear",
                 "industrial_building_allowance"},
          v \in Amounts : BasicEdit(k, v)
    \/ \E k \in {"pbit", "1. Depreciation", "41. Dividends Paid",
                 "64. Dividends Paid (duplicate)", "1. Wear & Tear"},
          v \in Amounts : FullEdit(k, v)

SpecLedger == Init /\ [][NextLedger]_vars

\* The sidebar's bracket table, typed tier by tier in ascending order, and
\* the taxable income.
NextBrackets ==
    \/ \E t \in TaxpayerTypes : SelectTaxpayerType(t)
    \/ \E t \in Tiers :
           /\ \A i \in 1..Len(brackets_json.tiers) :
                  brackets_json.tiers[i].threshold <= t.threshold
           /\ AppendTier(t)
    \/ ClearTiers
    \/ RestoreDefaultTiers
    \/ TypeInvalidJson
    \/ \E v \in Incomes : EditMapped("revenue", v)

SpecBrackets == InitMain /\ [][NextBrackets]_vars

\* The company rate and the taxable income.
NextCompany ==
    \/ \E t \in TaxpayerTypes : SelectTaxpayerType(t)
    \/ \E r \in RatePcts : SetCompanyRate(r)
    \/ \E v \in Incomes : EditMapped("revenue", v)

SpecCompany == InitMain /\ [][NextCompany]_vars

\* The sidebar's bracket table, typed tier by tier in any order.
NextSort ==
    \/ \E t \in TaxpayerTypes : SelectTaxpayerType(t)
    \/ \E t \in Tiers : AppendTier(t)
    \/ ClearTiers
    \/ \E v \in 0..MaxIncome : EditMapped("revenue", v)

SpecSort == InitMain /\ [][NextSort]_vars

\* The row of the save button, without the client's name, the TIN and the
\* time of the save.
history_row ==
    [taxpayer_type |-> taxpayer_type, year |-> tax_year,
     period |-> period_label,
     revenue |-> mapped_values["revenue"], cogs |-> mapped_values["cogs"],
     opex |-> mapped_values["opex"],
     other_income |-> mapped_values["other_income"],
     other_expenses |-> mapped_values["other_expenses"],
     pbit |-> pbit,
     capital_allowances |-> capital_allowances, exemptions |-> exemptions,
     taxable_income |-> adjusted_taxable_income, gross_tax |-> gross_tax,
     credits_wht |-> credits_wht, credits_foreign |-> credits_foreign,
     rebates |-> rebates, net_tax_payable |-> net_tax_after_provisional]

\* Tab 3: the button "Save Computation to History".
SaveToHistory ==
    /\ InMain
    /\ Len(history) < MaxSaved
    /\ history' = Append(history, history_row)
    /\ UNCHANGED << script, main, basic, full, builder, pl_df >>

\* Computations under either model, with a credit and a provisional
\* payment, saved to the history.
NextSave ==
    \/ \E t \in TaxpayerTypes : SelectTaxpayerType(t)
    \/ \E v \in {0, 500000000} : EditMapped("revenue", v)
    \/ \E v \in {0, MaxAmt} : EditTab3("credits_wht", v)
    \/ \E v \in {0, 1} : EditTab3("provisional_tax_paid", v)
    \/ SaveToHistory

SpecSave == InitMain /\ [][NextSave]_vars

\* Tab 5: one number input (min_value=0.0) of the selected form; the rerun
\* assembles the payload anew.
EditExport(key, v) ==
    /\ InMain
    /\ form_code \in DOMAIN URA_SCHEMAS
    /\ dict_has(payload, key)
    /\ payload' = export_payload(form_code,
                                 dict_set(payload, key, FloatV(v)))
    /\ Forget
    /\ UNCHANGED << script, history, main, basic, full, pl_df, form_code >>

\* The export tab: the form of either taxpayer type, amounts typed into its
\* number inputs, the build button.
NextExport ==
    \/ \E t \in TaxpayerTypes : AssemblePayload(t)
    \/ \E k \in {"Gross Tax (UGX)", "WHT Credits (UGX)",
                 "Foreign Tax Credit (UGX)", "Rebates (UGX)"},
          v \in Amounts : EditExport(k, v)
    \/ \E k \in {"Business Income (UGX)", "Allowable Deductions (UGX)",
                 "Gross Turnover (UGX)", "COGS (UGX)"} :
           EditExport(k, MaxAmt)
    \/ ValidateAndBuild

SpecExport == InitMain /\ [][NextExport]_vars

\* Payload values of the types a caller can supply: the declared one, one
\* that converts to it, and one that does not.
TINValues == {StrV(<< "7" >>), IntV(7)}

YearValues ==
    {IntV(tax_year), FloatV(100 * tax_year + 50),
     StrV(<< " " >> \o digits_of(tax_year)), StrV(<< "x", "7" >>), NoneV}

GrossTaxValues ==
    {FloatV(150), IntV(2), StrV(<< "1", ".", "5" >>),
     StrV(<< "1", ".", "5", ".", "0" >>)}

FormCodes == {"DT-2001", "DT-2002", "DT-9999"}

\* The calls of validate_and_build_return: the payload edited, fields taken
\* out and put back, a key added that no schema has.
NextBuild ==
    \/ \E t \in TaxpayerTypes : AssemblePayload(t)
    \/ \E c \in FormCodes : SetFormCode(c)
    \/ \E v \in TINValues : SetField("TIN", v)
    \/ \E v \in YearValues : SetField("Year", v)
    \/ \E v \in GrossTaxValues : SetField("Gross Tax (UGX)", v)
    \/ SetField("Net Tax Payable (UGX)", FloatV(0))
    \/ SetField("Notes", StrV(<< "n" >>))
    \/ \E k \in {"Year", "Net Tax Payable (UGX)", "Notes"} : DelField(k)
    \/ ValidateAndBuild

SpecBuild == InitMain /\ [][NextBuild]_vars

\* Tiers typed into the brackets box between builds.
IsolationTiers ==
    {t \in Tiers : t.rate = 50 /\ t.fixed = MaxFixed
                   /\ t.threshold >= MaxThr - 1}

\* Builds and computations that follow failures: the brackets box holding
\* text that does not load, calls of validate_and_build_return that raise,
\* and the inputs put right afterwards.
NextIsolation ==
    \/ TypeInvalidJson
    \/ RestoreDefaultTiers
    \/ ClearTiers
    \/ \E t \in IsolationTiers : AppendTier(t)
    \/ \E v \in {0, MaxIncome, 500000000} : EditMapped("revenue", v)
    \/ \E c \in FormCodes : SetFormCode(c)
    \/ \E v \in YearValues : SetField("Year", v)
    \/ SetField("Net Tax Payable (UGX)", FloatV(0))
    \/ DelField("Net Tax Payable (UGX)")
    \/ ValidateAndBuild

SpecIsolation == InitMain /\ [][NextIsolation]_vars

\* Headers of uploaded files: a ledger, explicit columns beside a ledger
\* (in other case, with blanks around), explicit columns with an account
\* column and no amount column.
LedgerColumns == << << "A", "c", "c", "o", "u", "n", "t" >>, << "A", "m", "o", "u", "n", "t" >> >>

MixedColumns ==
    << << " ", "R", "e", "v", "e", "n", "u", "e", " " >>, << "C", "O", "G", "S" >>,
       << "a", "c", "c", "o", "u", "n", "t" >>, << "A", "M", "O", "U", "N", "T", " " >> >>

ExplicitColumns ==
    << << "O", "p", "e", "r", "a", "t", "i", "n", "g", "_", "E", "x", "p", "e", "n", "s", "e", "s" >>,
       << "A", "c", "c", "o", "u", "n", "t" >> >>

\* Account names of ledger rows; a cell without text is NaN.
Accounts ==
    { StrV(<< "S", "a", "l", "e", "s" >>),
      StrV(<< "O", "t", "h", "e", "r", " ", "I", "n", "c", "o", "m", "e" >>),
      StrV(<< "O", "t", "h", "e", "r", " ", "E", "X", "P", "E", "N", "S", "E" >>),
      StrV(<< "c", "o", "s", "t", " ", "o", "f", " ", "g", "o", "o", "d", "s" >>),
      NoneV }

LedgerRows == {<< a, FloatV(MaxAmt) >> : a \in Accounts}

MixedRows ==
    {<< FloatV(MaxAmt), FloatV(1), a, FloatV(MaxAmt) >> :
        a \in {StrV(<< "O", "t", "h", "e", "r", " ", "I", "n", "c", "o", "m", "e" >>),
               StrV(<< "B", "a", "n", "k" >>)}}

ExplicitRows ==
    {<< FloatV(v), StrV(<< "S", "a", "l", "e", "s" >>) >> : v \in {1, MaxAmt}}

\* Datasets uploaded and mapped.
NextImport ==
    \/ \E row \in LedgerRows : Upload(LedgerColumns, row)
    \/ \E row \in MixedRows : Upload(MixedColumns, row)
    \/ \E row \in ExplicitRows : Upload(ExplicitColumns, row)
    \/ \E row \in LedgerRows \cup MixedRows \cup ExplicitRows :
           UploadLonger(row)
    \/ AutoMap

SpecImport == InitMain /\ [][NextImport]_vars

\* Datasets that lack data: no rows, no recognised column, an account or
\* an amount column without the other, a ledger whose accounts match no
\* keyword; and explicit columns beside them.
NextAbsent ==
    \E c \in
        { << >>,
          << << "D", "a", "t", "e" >>,
             << "M", "e", "m", "o" >> >>,
          << << "A", "c", "c", "o", "u", "n", "t" >>,
             << "V", "a", "l", "u", "e" >> >>,
          << << "N", "a", "m", "e" >>,
             << " ", "a", "m", "o", "u", "n", "t" >> >>,
          << << "A", "C", "C", "O", "U", "N", "T" >>,
             << "A", "m", "o", "u", "n", "t" >> >>,
          << << "N", "a", "m", "e" >>,
             << "R", "e", "v", "e", "n", "u", "e" >> >>,
          << << "A", "c", "c", "o", "u", "n", "t" >>,
             << "c", "o", "g", "s" >> >> } :
        \/ PassEmpty(c)
        \/ \E a \in {StrV(<< "S", "a", "l", "e", "s" >>),
                     StrV(<< "B", "a", "n", "k" >>), FloatV(MaxAmt)},
              v \in {1, MaxAmt} :
               \/ Upload(c, << a, FloatV(v) >>)
               \/ UploadLonger(<< a, FloatV(v) >>)
        \/ AutoMap

SpecAbsent == InitMain /\ [][NextAbsent]_vars

(***************************************************************************)
(* Properties.                                                             *)
(***************************************************************************)
\* max(0, x), written out
NonNeg(x) == IF x > 0 THEN x ELSE 0

IsIndividual == InMain /\ taxpayer_type = "individual"
IsCompany == InMain /\ taxpayer_type = "company"

StrictlyAscending(b) ==
    \A i \in 1..(Len(b) - 1) : b[i].threshold < b[i + 1].threshold

\* The tiers whose threshold the income exceeds.
Exceeded(T, b) == {i \in 1..Len(b) : T > b[i].threshold}

\* The one of them with the highest threshold.
HighestExceeded(T, b) ==
    CHOOSE i \in Exceeded(T, b) :
        \A j \in Exceeded(T, b) : b[j].threshold <= b[i].threshold

\* fixed_i + rate_i * (upto - threshold_i), to the cent
TierFormula(b, i, upto) ==
    round2(Plus(b[i].fixed, Times(upto - b[i].threshold, b[i].rate)))

\* C1: in the main script chargeable_income, adjusted_taxable_income,
\* net_tax_payable and net_tax_after_provisional are never negative, whatever
\* is subtracted.
C1_FloorInvariant ==
    /\ chargeable_income >= 0
    /\ adjusted_taxable_income >= 0
    /\ net_tax_payable >= 0
    /\ net_tax_after_provisional >= 0

\* A run in which the credits exceed a positive gross tax and a provisional
\* payment is made on top.
C1_Witness ==
    /\ gross_tax > 0
    /\ credits_wht + credits_foreign + rebates > gross_tax
    /\ provisional_tax_paid > 0
    /\ capital_allowances > 0
    /\ total_allowables > 0
    /\ net_tax_after_provisional = 0

\* C2: with strictly ascending thresholds and a positive taxable income the
\* individual's gross tax is the formula of the highest-threshold tier the
\* income exceeds, and 0 when it exceeds none; the built-in table gives
\* 384,000.00 on 5,000,000.00.
C2_ProgressiveFormula ==
    /\ (/\ IsIndividual
        /\ StrictlyAscending(individual_brackets)
        /\ adjusted_taxable_income > 0)
       => gross_tax =
              IF Exceeded(adjusted_taxable_income, individual_brackets) = {}
              THEN 0
              ELSE TierFormula(individual_brackets,
                       HighestExceeded(adjusted_taxable_income,
                                       individual_brackets),
                       adjusted_taxable_income)
    /\ (/\ IsIndividual
        /\ individual_brackets = default_brackets
        /\ adjusted_taxable_income = 500000000)
       => gross_tax = 38400000

\* A two-tier table whose second tier the income exceeds, the two tiers'
\* formulas giving different taxes.
C2_Witness ==
    /\ IsIndividual
    /\ StrictlyAscending(individual_brackets)
    /\ Len(individual_brackets) = 2
    /\ adjusted_taxable_income > individual_brackets[2].threshold
    /\ gross_tax > 0
    /\ gross_tax # TierFormula(individual_brackets, 1, adjusted_taxable_income)

\* C3: a taxable income equal to the threshold of tier i >= 1 is taxed by
\* the tier below, fixed_{i-1} + rate_{i-1} * (threshold_i - threshold_{i-1});
\* the built-in table gives 120,000.00 on 4,020,000.00.
C3_ExactThreshold ==
    /\ (/\ IsIndividual
        /\ StrictlyAscending(individual_brackets)
        /\ adjusted_taxable_income > 0)
       => \A i \in 2..Len(individual_brackets) :
              adjusted_taxable_income = individual_brackets[i].threshold
              => gross_tax = TierFormula(individual_brackets, i - 1,
                                         individual_brackets[i].threshold)
    /\ (/\ IsIndividual
        /\ individual_brackets = default_brackets
        /\ adjusted_taxable_income = 402000000)
       => gross_tax = 12000000

\* An income on the second threshold of a table whose second tier starts at
\* another amount than the first tier ends with.
C3_Witness ==
    /\ IsIndividual
    /\ StrictlyAscending(individual_brackets)
    /\ Len(individual_brackets) = 2
    /\ adjusted_taxable_income = individual_brackets[2].threshold
    /\ gross_tax > 0
    /\ gross_tax # individual_brackets[2].fixed

\* C4, as claimed: under the configured model the gross tax does not
\* decrease when the taxable income grows.
C4_Monotone ==
    InMain =>
        \A T1, T2 \in Incomes :
            T1 <= T2 =>
                GrossTax(taxpayer_type, T1, company_rate, individual_brackets)
                <= GrossTax(taxpayer_type, T2, company_rate,
                            individual_brackets)

\* C5: the company's gross tax is the cent nearest to income * rate (a tie
\* going to the even cent); 1,000,000.00 at 30% gives 300,000.00.
C5_FlatRate ==
    (IsCompany /\ adjusted_taxable_income > 0) =>
        LET x == Times(adjusted_taxable_income, company_rate)
        IN  /\ \/ gross_tax = x.c /\ x.f <= 50
               \/ gross_tax = x.c + 1 /\ x.f >= 50
            /\ x.f = 50 => gross_tax % 2 = 0
            /\ adjusted_taxable_income <= MaxIncome =>
                   /\ 100 * gross_tax - adjusted_taxable_income * company_rate
                          \in -50..50
            /\ (adjusted_taxable_income = 100000000 /\ company_rate = 30)
                   => gross_tax = 30000000

\* A company whose income * rate lies strictly between two cents.
C5_Witness ==
    /\ IsCompany
    /\ adjusted_taxable_income = 2
    /\ company_rate = 30
    /\ gross_tax = 1

\* C6: net_tax_payable = max(0, gross_tax - credits_wht - credits_foreign -
\* rebates), the same however the three amounts are dealt to the three
\* parameters; 1,000,000 less 600,000, 300,000 and 200,000 gives 0.
C6_CreditReduction ==
    /\ InMain =>
        /\ net_tax_payable =
               NonNeg(gross_tax - (credits_wht + credits_foreign + rebates))
        /\ \A p \in {<<credits_wht, credits_foreign, rebates>>,
                     <<credits_wht, rebates, credits_foreign>>,
                     <<credits_foreign, credits_wht, rebates>>,
                     <<credits_foreign, rebates, credits_wht>>,
                     <<rebates, credits_wht, credits_foreign>>,
                     <<rebates, credits_foreign, credits_wht>>} :
               apply_credits_and_rebates(gross_tax, p[1], p[2], p[3])
                   = net_tax_payable
    /\ apply_credits_and_rebates(100000000, 60000000, 30000000, 20000000) = 0

\* Three different reductions that leave some tax to pay.
C6_Witness ==
    /\ InMain
    /\ credits_wht # credits_foreign
    /\ credits_foreign # rebates
    /\ credits_wht # rebates
    /\ rebates > 0
    /\ net_tax_payable > 0

\* C7, as claimed: in all three scripts the final tax is max(0, tax -
\* payments) and no refund is reported.
C7_NoRefundAnywhere ==
    /\ net_tax_after_provisional =
           NonNeg(net_tax_payable - provisional_tax_paid)
    /\ basic.final_tax =
           NonNeg(basic.income_tax - basic.w.provisional_taxes_paid
                  - basic.w.withholding_taxes)
    /\ basic.shown # "Tax Refund Due"
    /\ full.final_tax_payable.c >= 0
    /\ ~full.claimable_note

\* C7, amended: the main script's final tax is max(0, net_tax_payable -
\* provisional_tax_paid); the two single-page scripts do not floor: their
\* final tax is tax - payments, and a negative one is reported as a refund.
C7_NoRefundInMain ==
    /\ net_tax_after_provisional =
           NonNeg(net_tax_payable - provisional_tax_paid)
    /\ net_tax_after_provisional >= 0
    /\ basic.final_tax = basic.income_tax - basic.w.provisional_taxes_paid
                         - basic.w.withholding_taxes
    /\ basic.shown = "Tax Refund Due" =>
           basic.final_tax < 0 /\ basic.shown_amount = -basic.final_tax
    /\ basic.shown = "Final Tax Payable" =>
           basic.final_tax >= 0 /\ basic.shown_amount = basic.final_tax
    /\ full.final_tax_payable =
           [c |-> full.tax_payable.c - full.w.provisional_tax
                  - full.w.withholding_tax,
            f |-> full.tax_payable.f]
    /\ full.claimable_note <=> full.final_tax_payable.c < 0

\* The main script with a provisional payment above a positive net tax.
C7_Witness ==
    /\ InMain
    /\ net_tax_payable > 0
    /\ provisional_tax_paid > net_tax_payable
    /\ net_tax_after_provisional = 0

\* C8: the taxable income is max(0, chargeable_income - capital_allowances -
\* exemptions), and the gross tax is computed from it, by the flat rate
\* exactly for a company and by the brackets otherwise.
C8_ChainOrder ==
    InMain =>
        /\ adjusted_taxable_income =
               NonNeg(chargeable_income - capital_allowances - exemptions)
        /\ taxpayer_type = "company" =>
               gross_tax = compute_company_tax(adjusted_taxable_income,
                                               company_rate)
        /\ taxpayer_type # "company" =>
               gross_tax = compute_individual_tax_brackets(
                               adjusted_taxable_income, individual_brackets)

\* An individual with allowances and exemptions, taxed by the brackets at
\* another amount than the flat rate would give.
C8_Witness ==
    /\ IsIndividual
    /\ capital_allowances > 0
    /\ exemptions > 0
    /\ adjusted_taxable_income < chargeable_income
    /\ gross_tax > 0
    /\ gross_tax # compute_company_tax(adjusted_taxable_income, company_rate)

\* C9, as claimed: in every script chargeable income is max(0, adjusted
\* profit - total allowables).
C9_ChargeableFloor ==
    /\ chargeable_income = NonNeg(adjusted_profit - total_allowables)
    /\ basic.chargeable_income =
           NonNeg(basic.adjusted_profit - basic.allowables)
    /\ full.chargeable_income =
           NonNeg(full.adjusted_profit - full.total_allowables)

\* C10: pbit = (revenue + other_income) - (cogs + opex + other_expenses) and
\* adjusted_profit = pbit + the sum of the addbacks, neither floored: both
\* are negative when the expenses exceed the income plus the addbacks.
C10_AdjustedProfit ==
    InMain =>
        LET income == mapped_values.revenue + mapped_values.other_income
            expenses == mapped_values.cogs + mapped_values.opex
                        + mapped_values.other_expenses
            added == addbacks["Depreciation (Section 22(3)(b))"]
                     + addbacks["Amortisation"]
        IN  /\ pbit = income - expenses
            /\ total_addbacks = added
            /\ adjusted_profit = pbit + added
            /\ expenses > income + added => pbit < 0 /\ adjusted_profit < 0

\* A loss that the addbacks reduce but do not cover.
C10_Witness ==
    /\ InMain
    /\ total_addbacks > 0
    /\ adjusted_profit < 0
    /\ pbit < adjusted_profit

\* Incomes that are zero or negative.
ZeroBaseIncomes == (0 - MaxIncome)..0

\* Bracket tables of every kind: the loaded one, the built-in one, an empty
\* one, and one with a negative threshold.  The malformed ones are a tier
\* without threshold and fixed, a tier that is a string, and a string where
\* the list of tiers should be.
ZeroBaseTables ==
    {individual_brackets, default_brackets, << >>,
     << [threshold |-> 0 - 1, rate |-> 10, fixed |-> MaxFixed] >>}

\* C11: for a taxable income <= 0 both calculators return 0, whatever the
\* rate and whatever the bracket table, an empty or malformed one included:
\* the table is not looked at.
C11_ZeroBase ==
    /\ (InMain /\ adjusted_taxable_income <= 0) => gross_tax = 0
    /\ \A T \in ZeroBaseIncomes :
           /\ \A r \in RatePcts : compute_company_tax(T, r) = 0
           /\ \A b \in ZeroBaseTables :
                  compute_individual_tax_brackets(T, b) = 0
           /\ compute_individual_tax_brackets(T, << [rate |-> 10] >>) = 0
           /\ compute_individual_tax_brackets(T, << "tier" >>) = 0
           /\ compute_individual_tax_brackets(T, "not a list") = 0

\* An individual without taxable income under a table whose first tier
\* carries a fixed amount.
C11_Witness ==
    /\ IsIndividual
    /\ adjusted_taxable_income = 0
    /\ Len(individual_brackets) = 2
    /\ individual_brackets[1].fixed > 0
    /\ individual_brackets[1].threshold = 0
    /\ gross_tax = 0

\* The orders in which the tiers of a list can be typed.
Orders(tiers) ==
    {[i \in 1..Len(tiers) |-> tiers[p[i]]] :
        p \in {q \in [1..Len(tiers) -> 1..Len(tiers)] :
                  \A i, j \in 1..Len(tiers) : q[i] = q[j] => i = j}}

DistinctThresholds(tiers) ==
    \A i, j \in 1..Len(tiers) :
        tiers[i].threshold = tiers[j].threshold => i = j

\* C12: the gross tax of an individual is the same in whatever order the
\* tiers (of distinct thresholds) are typed: it is the tax of the ascending
\* order.
C12_OrderIndependent ==
    (/\ IsIndividual
     /\ brackets_json.valid
     /\ DistinctThresholds(brackets_json.tiers))
    => /\ StrictlyAscending(individual_brackets)
       /\ individual_brackets \in Orders(brackets_json.tiers)
       /\ \A o \in Orders(brackets_json.tiers) :
              /\ StrictlyAscending(o) =>
                     gross_tax = compute_individual_tax_brackets(
                                     adjusted_taxable_income, o)
              /\ compute_individual_tax_brackets(
                     adjusted_taxable_income,
                     load_brackets([valid |-> TRUE, tiers |-> o]))
                 = gross_tax

\* Two tiers typed in descending order, where the order as typed would give
\* another tax.
C12_Witness ==
    /\ IsIndividual
    /\ brackets_json.valid
    /\ Len(brackets_json.tiers) = 2
    /\ brackets_json.tiers[1].threshold > brackets_json.tiers[2].threshold
    /\ adjusted_taxable_income > brackets_json.tiers[1].threshold
    /\ gross_tax > 0
    /\ gross_tax # compute_individual_tax_brackets(adjusted_taxable_income,
                                                   brackets_json.tiers)

\* The schema of a registered form, as the form's specification lists it.
Registered(code) == code \in {"DT-2001", "DT-2002"}

FieldName(code, i) == URA_SCHEMAS[code].fields[i][1]

FieldType(code, i) == URA_SCHEMAS[code].fields[i][2]

FieldCount(code) == Len(URA_SCHEMAS[code].fields)

\* The Python type of a declared type.
TypeOf(ftype) == IF ftype \in {"int", "float"} THEN ftype ELSE "str"

Present(p, code, i) == \E e \in 1..Len(p) : p[e].key = FieldName(code, i)

ValueOf(p, code, i) ==
    p[CHOOSE e \in 1..Len(p) : p[e].key = FieldName(code, i)].val

\* Every schema field is in the payload with a value of its declared type.
CorrectlyTyped(code, p) ==
    \A i \in 1..FieldCount(code) :
        Present(p, code, i) /\ ValueOf(p, code, i).t = TypeOf(FieldType(code, i))

\* The payload's keys are not in the order of the schema.
OutOfSchemaOrder(code, p) ==
    \E i, j \in 1..FieldCount(code) :
        /\ i < j
        /\ \E a, b \in 1..Len(p) :
               a > b /\ p[a].key = FieldName(code, i)
                     /\ p[b].key = FieldName(code, j)

\* C13: for a registered form and a payload that has every schema field
\* with a value of its type, the call returns a record of exactly the
\* schema's fields in schema order, whatever the payload's order and
\* whatever other keys it has, each value the payload's; and every record
\* the call returns has the schema's columns with values of the declared
\* types, a value of another type having been converted (" 2024" to 2024,
\* 2024.5 to 2024, "1.5" to 1.50, 2 to 2.00, 7 to "7").
C13_SchemaRoundTrip ==
    (built.fresh /\ Registered(form_code)) =>
        /\ CorrectlyTyped(form_code, payload) =>
               /\ built.result.ok
               /\ \A i \in 1..FieldCount(form_code) :
                      built.result.row[i] = ValueOf(payload, form_code, i)
        /\ built.result.ok =>
               /\ Len(built.result.columns) = FieldCount(form_code)
               /\ Len(built.result.row) = FieldCount(form_code)
               /\ \A i \in 1..FieldCount(form_code) :
                      /\ built.result.columns[i] = FieldName(form_code, i)
                      /\ built.result.row[i].t
                             = TypeOf(FieldType(form_code, i))
               /\ built.result.row[1] \in {StrV(<< >>), StrV(<< "7" >>)}
               /\ built.result.row[4] = IntV(tax_year)
               /\ built.result.row[FieldCount(form_code) - 4]
                      \in {FloatV(0), FloatV(150), FloatV(200)}
               /\ (ValueOf(payload, form_code, FieldCount(form_code) - 4).t
                       = "int")
                  => built.result.row[FieldCount(form_code) - 4] = FloatV(200)

\* A record built from a correctly typed payload whose keys are out of
\* schema order and which has a key of no schema.
C13_Witness ==
    /\ built.fresh
    /\ Registered(form_code)
    /\ CorrectlyTyped(form_code, payload)
    /\ OutOfSchemaOrder(form_code, payload)
    /\ \E e \in 1..Len(payload) : payload[e].key = "Notes"
    /\ built.result.ok
    /\ ValueOf(payload, form_code, FieldCount(form_code) - 4) = FloatV(150)

\* The schema fields that the payload lacks, and the first of them.
Absent(code, p) == {i \in 1..FieldCount(code) : ~Present(p, code, i)}

FirstAbsent(code, p) ==
    CHOOSE i \in Absent(code, p) : \A j \in Absent(code, p) : i <= j

MissingFieldError(e) ==
    e.kind = "ValueError" /\ e.text = "Missing required field: "

\* C14, as claimed: whenever a schema field of a registered form is absent
\* from the payload, the call returns no record and fails with the
\* missing-field error, whose message names an absent field.
C14_MissingField ==
    (built.fresh /\ Registered(form_code) /\ Absent(form_code, payload) # {})
    => /\ ~built.result.ok
       /\ MissingFieldError(built.result.error)
       /\ \E i \in Absent(form_code, payload) :
              built.result.error.field = FieldName(form_code, i)

\* C14, amended: whenever a schema field is absent the call returns no
\* record.  If every field before the first absent one (in schema order)
\* has a value of its declared type, it fails with "Missing required
\* field:" naming that first absent field; otherwise it fails with that
\* error or with the conversion error of a field before it, whose message
\* names no field.
C14_FirstMissingField ==
    (built.fresh /\ Registered(form_code) /\ Absent(form_code, payload) # {})
    => /\ ~built.result.ok
       /\ built.result.columns = << >>
       /\ built.result.row = << >>
       /\ \/ /\ MissingFieldError(built.result.error)
             /\ built.result.error.field
                    = FieldName(form_code, FirstAbsent(form_code, payload))
          \/ /\ ~MissingFieldError(built.result.error)
             /\ built.result.error.kind \in {"ValueError", "TypeError"}
             /\ built.result.error.field = ""
             /\ \E i \in 1..(FirstAbsent(form_code, payload) - 1) :
                    ValueOf(payload, form_code, i).t
                        # TypeOf(FieldType(form_code, i))
       /\ (\A i \in 1..(FirstAbsent(form_code, payload) - 1) :
               ValueOf(payload, form_code, i).t
                   = TypeOf(FieldType(form_code, i)))
          => MissingFieldError(built.result.error)

\* A call with two fields absent, the error naming the earlier one.
C14_Witness ==
    /\ built.fresh
    /\ Registered(form_code)
    /\ Cardinality(Absent(form_code, payload)) = 2
    /\ MissingFieldError(built.result.error)
    /\ built.result.error.field = "Year"

UnknownFormError(e) == e.kind = "KeyError"

CoercionError(e) ==
    /\ e.kind \in {"ValueError", "TypeError"}
    /\ ~MissingFieldError(e)

\* C15: a call with a form code that URA_SCHEMAS does not register returns
\* no record and fails with the unknown-form outcome (the KeyError of the
\* schema lookup, carrying the form code), which is neither the
\* missing-field nor a conversion outcome and which no registered form code
\* produces.
C15_UnknownForm ==
    built.fresh
    => /\ ~Registered(form_code)
          => /\ ~built.result.ok
             /\ built.result.columns = << >>
             /\ built.result.row = << >>
             /\ UnknownFormError(built.result.error)
             /\ built.result.error.key = form_code
             /\ ~MissingFieldError(built.result.error)
             /\ ~CoercionError(built.result.error)
       /\ Registered(form_code) => ~UnknownFormError(built.result.error)

\* A call with an unregistered form code on a payload that is complete for
\* a registered one.
C15_Witness ==
    /\ built.fresh
    /\ form_code = "DT-9999"
    /\ CorrectlyTyped("DT-2002", payload)
    /\ UnknownFormError(built.result.error)

\* The schema fields declared int or float whose payload value is present
\* and not of the declared type.
Converted(code, p) ==
    {i \in 1..FieldCount(code) :
        /\ FieldType(code, i) \in {"int", "float"}
        /\ Present(p, code, i)
        /\ ValueOf(p, code, i).t # FieldType(code, i)}

\* C16, as claimed: when a value of an int or float field cannot be
\* converted, the call returns no record and fails with a conversion error
\* that names the offending field.
C16_CoercionNamesField ==
    (built.fresh /\ Registered(form_code)
        /\ CoercionError(built.result.error))
    => /\ ~built.result.ok
       /\ built.result.columns = << >>
       /\ \E i \in Converted(form_code, payload) :
              built.result.error.field = FieldName(form_code, i)

ExpectedRecord(code, p) ==
    [ok |-> TRUE,
     columns |-> [i \in 1..FieldCount(code) |-> FieldName(code, i)],
     row |-> [i \in 1..FieldCount(code) |-> ValueOf(p, code, i)],
     error |-> NoError]

\* C18: a failure leaves nothing behind.  A build on a valid payload gives
\* the payload's record whether or not the build before it raised and
\* whether or not the brackets box holds text that does not load; a failed
\* build shows no column and no row; a brackets text that loads gives its
\* own sorted table and the tax computed from it, whatever failed before,
\* and one that does not load gives the whole default table.
C18_FailureIsolation ==
    /\ (built.fresh /\ Registered(form_code)
           /\ CorrectlyTyped(form_code, payload))
       => built.result = ExpectedRecord(form_code, payload)
    /\ (built.called /\ ~built.ok) =>
           (built.fresh => /\ built.result.columns = << >>
                           /\ built.result.row = << >>)
    /\ brackets_json.valid =>
           individual_brackets = load_brackets(brackets_json)
    /\ ~brackets_json.valid => individual_brackets = default_brackets
    /\ gross_tax = GrossTax(taxpayer_type, adjusted_taxable_income,
                            company_rate, individual_brackets)

\* A build that returns its record right after a build that raised, while
\* the brackets box holds text that does not load.
C18_Witness ==
    /\ built.fresh
    /\ ~built.ok_before
    /\ built.result.ok
    /\ built.result = ExpectedRecord(form_code, payload)
    /\ ~brackets_json.valid

\* The five buckets, their keywords and their explicit columns.
Buckets == {"revenue", "cogs", "opex", "other_income", "other_expenses"}

KeywordsOf(b) ==
    CASE b = "revenue" -> revenue_keywords
      [] b = "cogs" -> cogs_keywords
      [] b = "opex" -> opex_keywords
      [] b = "other_income" -> other_income_keywords
      [] b = "other_expenses" -> other_expenses_keywords

ColumnNameOf(b) ==
    CASE b = "revenue" -> col_revenue
      [] b = "cogs" -> col_cogs
      [] b = "opex" -> col_operating_expenses
      [] b = "other_income" -> col_other_income
      [] b = "other_expenses" -> col_other_expenses

\* Character c is the lower-case letter l, in either case.
IsLetter(c, l) ==
    c = l \/ (c \in UpperSet
              /\ \E k \in 1..26 : LowerChars[k] = l /\ UpperChars[k] = c)

\* Header h is the name, in any case, with blanks around it.
Named(h, name) ==
    \E i \in 1..Len(h) :
        /\ i + Len(name) - 1 <= Len(h)
        /\ \A k \in 1..(i - 1) : h[k] = " "
        /\ \A k \in 1..Len(name) : IsLetter(h[i + k - 1], name[k])
        /\ \A k \in (i + Len(name))..Len(h) : h[k] = " "

ColumnsNamed(df, name) ==
    {j \in 1..Len(df.columns) : Named(df.columns[j], name)}

HasLedger(df) ==
    /\ ColumnsNamed(df, col_account) # {}
    /\ ColumnsNamed(df, col_amount) # {}

\* Whether the text, taken in lower case, has keyword kw somewhere.
HasKeyword(text, kw) ==
    \E i \in 1..Len(text) :
        /\ i + Len(kw) - 1 <= Len(text)
        /\ \A k \in 1..Len(kw) : text[i + k - 1] = kw[k]

\* The buckets with a keyword that an account cell contains.
BucketsOfText(text) ==
    {b \in Buckets : \E kw \in KeywordsOf(b) : HasKeyword(text, kw)}

BucketsOfCell(cell) ==
    IF cell.t = "str" THEN BucketsOfText(lower(cell.s)) ELSE {}

\* The buckets of the accounts of the first n rows, row by row.
RECURSIVE RowBuckets(_, _, _)
RowBuckets(df, ja, n) ==
    IF n = 0 THEN << >>
    ELSE Append(RowBuckets(df, ja, n - 1), BucketsOfCell(df.rows[n][ja]))

RECURSIVE SumWhere(_, _, _, _, _)
SumWhere(df, jm, buckets, b, n) ==
    IF n = 0 THEN 0
    ELSE SumWhere(df, jm, buckets, b, n - 1)
         + (IF b \in buckets[n] THEN df.rows[n][jm].n ELSE 0)

RECURSIVE SumCounted(_, _, _, _)
SumCounted(df, jm, buckets, n) ==
    IF n = 0 THEN 0
    ELSE SumCounted(df, jm, buckets, n - 1)
         + Cardinality(buckets[n]) * df.rows[n][jm].n

RECURSIVE SumColumn(_, _, _)
SumColumn(df, j, n) ==
    IF n = 0 THEN 0 ELSE SumColumn(df, j, n - 1) + df.rows[n][j].n

\* The ledger amounts counted for bucket b: the sum over the rows whose
\* account has a keyword of b.
LedgerExpected(df, b) ==
    IF ~HasLedger(df) THEN 0
    ELSE SumWhere(df, CHOOSE j \in ColumnsNamed(df, col_amount) : TRUE,
                  RowBuckets(df,
                             CHOOSE j \in ColumnsNamed(df, col_account) : TRUE,
                             Len(df.rows)),
                  b, Len(df.rows))

\* The ledger amounts, each times the number of buckets of its row.
LedgerCounted(df) ==
    IF ~HasLedger(df) THEN 0
    ELSE SumCounted(df, CHOOSE j \in ColumnsNamed(df, col_amount) : TRUE,
                    RowBuckets(df,
                               CHOOSE j \in ColumnsNamed(df, col_account) :
                                   TRUE,
                               Len(df.rows)),
                    Len(df.rows))

\* The sum of the explicit column of bucket b.
ExplicitExpected(df, b) ==
    IF ColumnsNamed(df, ColumnNameOf(b)) = {} THEN 0
    ELSE SumColumn(df, CHOOSE j \in ColumnsNamed(df, ColumnNameOf(b)) : TRUE,
                   Len(df.rows))

\* What the ledger adds to bucket b in a result m of auto_map_pl.
LedgerContribution(df, m, b) == m[b] - ExplicitExpected(df, b)

BucketsOverlap(df, m) ==
    /\ \A b \in Buckets : LedgerContribution(df, m, b) = LedgerExpected(df, b)
    /\ LedgerContribution(df, m, "revenue")
           + LedgerContribution(df, m, "cogs")
           + LedgerContribution(df, m, "opex")
           + LedgerContribution(df, m, "other_income")
           + LedgerContribution(df, m, "other_expenses")
       = LedgerCounted(df)

SourcesAdditive(df, m) ==
    \A b \in Buckets : m[b] = ExplicitExpected(df, b) + LedgerExpected(df, b)

TwoBucketRow(df, ja, jm, m) ==
    \E r \in 1..Len(df.rows) :
        /\ BucketsOfCell(df.rows[r][ja]) = {"revenue", "other_income"}
        /\ df.rows[r][jm].n > 0
        /\ m.other_income = df.rows[r][jm].n
        /\ m.revenue >= df.rows[r][jm].n

\* C19: the ledger's contribution to each bucket is the sum of the amounts
\* of the rows whose account contains, in any case, a keyword of that
\* bucket, each bucket on its own: a row that matches k buckets is added
\* to all k, so the five contributions together count each amount as many
\* times as its row has buckets.  (Where the call returns: a ledger whose
\* account column holds no text raises.)
C19_BucketsOverlap ==
    (pl_df.loaded /\ ~auto_map_pl_raises(pl_df))
    => BucketsOverlap(pl_df, auto_map_pl(pl_df))

\* A mapped ledger with a row in two buckets, its amount in both.
C19_Witness ==
    /\ pl_df.loaded
    /\ HasLedger(pl_df)
    /\ mapped_values = auto_map_pl(pl_df)
    /\ TwoBucketRow(pl_df,
                    CHOOSE j \in ColumnsNamed(pl_df, col_account) : TRUE,
                    CHOOSE j \in ColumnsNamed(pl_df, col_amount) : TRUE,
                    mapped_values)
    /\ pbit >= 2 * mapped_values.other_income

\* C20: with explicit columns and a ledger in one dataset, each bucket is
\* the sum of its explicit column plus the ledger amounts matched for it:
\* so for the function on every dataset uploaded on which it returns, and
\* so for the values the Auto-Map button stores.
C20_SourcesAdditive ==
    /\ []((pl_df.loaded /\ ~auto_map_pl_raises(pl_df))
          => SourcesAdditive(pl_df, auto_map_pl(pl_df)))
    /\ [][(pl_df' = pl_df /\ mapped_values' # mapped_values)
          => SourcesAdditive(pl_df, mapped_values')]_vars

\* A mapped dataset whose revenue comes from both sources.
C20_Witness ==
    /\ pl_df.loaded
    /\ ExplicitExpected(pl_df, "revenue") > 0
    /\ LedgerExpected(pl_df, "revenue") > 0
    /\ mapped_values.revenue
           = ExplicitExpected(pl_df, "revenue")
             + LedgerExpected(pl_df, "revenue")
    /\ mapped_values.cogs > 0
    /\ pbit = Pbit(mapped_values)

\* The datasets that lack data: no rows, none of the recognised columns,
\* or one of the account and amount columns without the other.
NoRecognisedColumn(df) ==
    /\ \A b \in Buckets : ColumnsNamed(df, ColumnNameOf(b)) = {}
    /\ ColumnsNamed(df, col_account) = {}
    /\ ColumnsNamed(df, col_amount) = {}

HalfLedger(df) ==
    (ColumnsNamed(df, col_account) = {}) # (ColumnsNamed(df, col_amount) = {})

LacksData(df) ==
    df.rows = << >> \/ NoRecognisedColumn(df) \/ HalfLedger(df)

\* Bucket b has no explicit column and no ledger row with a keyword of it.
NothingFor(df, b) ==
    /\ ColumnsNamed(df, ColumnNameOf(b)) = {}
    /\ HasLedger(df) =>
           \A r \in 1..Len(df.rows) :
               b \notin BucketsOfCell(
                            df.rows[r][CHOOSE j \in
                                ColumnsNamed(df, col_account) : TRUE])

\* C21: on a dataset with no rows, with none of the recognised columns or
\* with only one of the account and amount columns, auto_map_pl returns;
\* and wherever it returns, a bucket with no column and no matching ledger
\* row is 0, so that all five are 0 when nothing matches.
C21_AbsentData ==
    pl_df.loaded
    => /\ LacksData(pl_df) => ~auto_map_pl_raises(pl_df)
       /\ ~auto_map_pl_raises(pl_df)
          => \A b \in Buckets :
                 NothingFor(pl_df, b) => auto_map_pl(pl_df)[b] = 0
       /\ (NoRecognisedColumn(pl_df) \/ pl_df.rows = << >>)
          => auto_map_pl(pl_df) = [b \in Buckets |-> 0]

\* A mapped dataset with an account column and no amount column: the cogs
\* column is summed, the account "Sales" adds nothing to revenue.
C21_Witness ==
    /\ pl_df.loaded
    /\ HalfLedger(pl_df)
    /\ ColumnsNamed(pl_df, col_account) # {}
    /\ \E r \in 1..Len(pl_df.rows) :
           "revenue" \in BucketsOfCell(
                             pl_df.rows[r][CHOOSE j \in
                                 ColumnsNamed(pl_df, col_account) : TRUE])
    /\ mapped_values = auto_map_pl(pl_df)
    /\ mapped_values.cogs > 0
    /\ mapped_values.revenue = 0

\* The sum over the names of a category, each once, of its final amount;
\* the same over the names whose amount is not 0.
RECURSIVE SumNames(_, _)
SumNames(d, names) ==
    IF names = {} THEN 0
    ELSE d[CHOOSE n \in names : TRUE]
         + SumNames(d, names \ {CHOOSE n \in names : TRUE})

NonZeroNames(d) == {n \in DOMAIN d : d[n] # 0}

\* C22: a category total counts each name once, with the amount assigned
\* to it last.  In the single-page app "Dividends Paid (Section 22(3)(d))"
\* is assigned from widget 41 and again from widget 64: the ledger holds the
\* amount of widget 64 and the adjusted profit counts that amount alone.
\* In every script the total is the sum over the distinct names, and the
\* names whose amount is 0 add nothing.
C22_LastWriteWins ==
    /\ script = "uganda_tax_full_mvp_streamlit_app"
       => /\ DOMAIN full.addbacks
                 = {"Depreciation (Section 22(3)(b))",
                    "Dividends Paid (Section 22(3)(d))"}
          /\ full.addbacks["Dividends Paid (Section 22(3)(d))"]
                 = full.w["64. Dividends Paid (duplicate)"]
          /\ full.adjusted_profit
                 = full.w.pbit + full.w["1. Depreciation"]
                   + full.w["64. Dividends Paid (duplicate)"]
          /\ full.adjusted_profit
                 = full.w.pbit
                   + SumNames(full.addbacks, NonZeroNames(full.addbacks))
          /\ full.total_allowables
                 = SumNames(full.allowables, NonZeroNames(full.allowables))
    /\ InMain
       => /\ total_addbacks = SumNames(addbacks, DOMAIN addbacks)
          /\ total_addbacks = SumNames(addbacks, NonZeroNames(addbacks))
          /\ total_allowables = SumNames(allowables, DOMAIN allowables)
          /\ total_allowables = SumNames(allowables, NonZeroNames(allowables))

\* Both dividend widgets filled in with different amounts, a depreciation
\* beside them.
C22_Witness ==
    /\ script = "uganda_tax_full_mvp_streamlit_app"
    /\ full.w["41. Dividends Paid"] > 0
    /\ full.w["64. Dividends Paid (duplicate)"] > 0
    /\ full.w["41. Dividends Paid"] # full.w["64. Dividends Paid (duplicate)"]
    /\ full.w["1. Depreciation"] > 0
    /\ full.adjusted_profit
           = full.w.pbit + full.w["1. Depreciation"]
             + full.w["64. Dividends Paid (duplicate)"]

\* The value the configured model rounds: income * rate for a company, the
\* result of the scan floored at 0 for an individual.
Unrounded(type, taxable, rate, brackets) ==
    IF type = "company" THEN Times(taxable, rate)
    ELSE max0dec(bracket_loop(taxable, brackets, 1, [c |-> 0, f |-> 0]))

\* n is a whole number of cents nearest to the exact amount d.
NearestCent(n, d) ==
    /\ n \in Nat
    /\ \/ n = d.c /\ d.f <= 50
       \/ n = d.c + 1 /\ d.f >= 50

\* C23: under the bracket table and under every rate from 0 to 1 the gross
\* tax is not negative and is a whole number of cents, the one nearest to the
\* unrounded amount (either neighbour when that lies halfway); an income of 0
\* gives 0.
C23_GrossTaxRounded ==
    InMain =>
        /\ gross_tax \in Nat
        /\ adjusted_taxable_income <= 0 => gross_tax = 0
        /\ adjusted_taxable_income > 0 =>
               /\ NearestCent(gross_tax,
                      Unrounded(taxpayer_type, adjusted_taxable_income,
                                company_rate, individual_brackets))
               /\ \A r \in RatePcts :
                      NearestCent(
                          compute_company_tax(adjusted_taxable_income, r),
                          Times(adjusted_taxable_income, r))

\* An individual whose unrounded tax lies between two cents, at the half or
\* above it: the gross tax is the cent above.
C23_Witness ==
    /\ IsIndividual
    /\ adjusted_taxable_income > 0
    /\ Unrounded(taxpayer_type, adjusted_taxable_income, company_rate,
                 individual_brackets).f >= 50
    /\ gross_tax = Unrounded(taxpayer_type, adjusted_taxable_income,
                             company_rate, individual_brackets).c + 1

\* The tiers of a table without their fixed amounts, and with the fixed
\* amounts taken negative.
RECURSIVE WithoutFixed(_)
WithoutFixed(tiers) ==
    IF tiers = << >> THEN << >>
    ELSE << [threshold |-> Head(tiers).threshold, rate |-> Head(tiers).rate] >>
         \o WithoutFixed(Tail(tiers))

RECURSIVE NegatedFixed(_)
NegatedFixed(tiers) ==
    IF tiers = << >> THEN << >>
    ELSE << [Head(tiers) EXCEPT !.fixed = 0 - Head(tiers).fixed] >>
         \o NegatedFixed(Tail(tiers))

\* The fixed amount of each tier continues the tier below it.
Cumulative(b) ==
    \A i \in 2..Len(b) :
        Plus(b[i - 1].fixed,
             Times(b[i].threshold - b[i - 1].threshold, b[i - 1].rate))
        = [c |-> b[i].fixed, f |-> 0]

\* C24: compute_individual_tax_brackets returns a whole non-negative number
\* of cents for every income, zero and negative ones included, on the table
\* as it was typed (thresholds in any order, repeated, fixed amounts that do
\* not continue the tier below), on the same table without fixed amounts and
\* with negative ones; so does the script, which sorts the table first.
C24_NoCrash ==
    (InMain /\ brackets_json.valid) =>
        /\ gross_tax \in Nat
        /\ \A T \in (0 - 1)..MaxIncome :
               /\ compute_individual_tax_brackets(T, brackets_json.tiers)
                      \in Nat
               /\ compute_individual_tax_brackets(
                      T, WithoutFixed(brackets_json.tiers)) \in Nat
               /\ compute_individual_tax_brackets(
                      T, NegatedFixed(brackets_json.tiers)) \in Nat

\* Two tiers typed with the higher threshold first and a fixed amount that
\* does not continue the tier below: the function, given the table as typed,
\* returns a tax that the sorted table does not give.
C24_Witness ==
    /\ IsIndividual
    /\ brackets_json.valid
    /\ Len(brackets_json.tiers) = 2
    /\ brackets_json.tiers[1].threshold > brackets_json.tiers[2].threshold
    /\ ~Cumulative(individual_brackets)
    /\ adjusted_taxable_income > brackets_json.tiers[1].threshold
    /\ compute_individual_tax_brackets(adjusted_taxable_income,
                                       brackets_json.tiers) > 0
    /\ compute_individual_tax_brackets(adjusted_taxable_income,
                                       brackets_json.tiers) # gross_tax

\* The candidate of tier i: its fixed amount plus its rate on the part of
\* the income between its threshold and the next one.
Candidate(T, b, i) ==
    Plus(b[i].fixed,
         Times(max0((IF i < Len(b) THEN min(T, b[i + 1].threshold) ELSE T)
                    - b[i].threshold),
               b[i].rate))

\* A fold over every tier from i on, without early exit: the candidate of
\* the last tier whose threshold the income exceeds.
RECURSIVE FoldAll(_, _, _, _)
FoldAll(T, b, i, tax) ==
    IF i > Len(b) THEN tax
    ELSE FoldAll(T, b, i + 1,
                 IF T > b[i].threshold THEN Candidate(T, b, i) ELSE tax)

\* The tiers whose range (threshold_i, threshold_{i+1}] holds the income,
\* the last tier's range being open above.
Containing(T, b) ==
    {i \in 1..Len(b) :
        /\ b[i].threshold < T
        /\ i < Len(b) => T <= b[i + 1].threshold}

\* The tax of the tier that holds the income, 0 when no tier does.
Lookup(T, b) ==
    IF Containing(T, b) = {} THEN 0
    ELSE TierFormula(b, CHOOSE i \in Containing(T, b) : TRUE, T)

\* C25: under strictly ascending thresholds and for every positive income,
\* the scan that breaks at the first threshold the income does not exceed
\* gives the tax of the fold over all tiers, and the tax of the one tier
\* whose range holds the income (0 when the income is not above the first
\* threshold, where no tier holds it).
C25_ScanFoldLookup ==
    (InMain /\ StrictlyAscending(individual_brackets)) =>
        /\ (IsIndividual /\ adjusted_taxable_income > 0) =>
               /\ gross_tax = round2(max0dec(FoldAll(adjusted_taxable_income,
                                  individual_brackets, 1, [c |-> 0, f |-> 0])))
               /\ gross_tax = Lookup(adjusted_taxable_income,
                                     individual_brackets)
        /\ \A T \in 1..MaxIncome :
               /\ Cardinality(Containing(T, individual_brackets)) <= 1
               /\ compute_individual_tax_brackets(T, individual_brackets)
                  = round2(max0dec(FoldAll(T, individual_brackets, 1,
                                           [c |-> 0, f |-> 0])))
               /\ compute_individual_tax_brackets(T, individual_brackets)
                  = Lookup(T, individual_brackets)

\* An income in the range of the first of two tiers: the scan breaks at the
\* second tier, the fold passes over it, the lookup finds the first.
C25_Witness ==
    /\ IsIndividual
    /\ StrictlyAscending(individual_brackets)
    /\ Len(individual_brackets) = 2
    /\ Containing(adjusted_taxable_income, individual_brackets) = {1}
    /\ adjusted_taxable_income < individual_brackets[2].threshold
    /\ individual_brackets[2].fixed > 0
    /\ gross_tax > 0
    /\ gross_tax = Lookup(adjusted_taxable_income, individual_brackets)

\* The text of the sidebar's box does not load as a table.
Malformed == ~brackets_json.valid

\* The table loads and breaks the contract of a bracket table: a threshold
\* is repeated, or a fixed amount does not continue the tier below.
ViolatesContract ==
    /\ brackets_json.valid
    /\ \/ ~StrictlyAscending(individual_brackets)
       \/ ~Cumulative(individual_brackets)

\* The run shows a gross tax above 0 that is the tax of table b.
ComputedFrom(b) ==
    /\ gross_tax > 0
    /\ gross_tax = compute_individual_tax_brackets(adjusted_taxable_income, b)

\* C26, as claimed: for an individual, text that does not load leads to no
\* gross tax, neither from the built-in table put in its place nor from
\* another one; a table that breaks the contract is not fed to the
\* calculator.
C26_FailClosed ==
    IsIndividual =>
        /\ Malformed => /\ ~ComputedFrom(default_brackets)
                        /\ ~ComputedFrom(individual_brackets)
        /\ ViolatesContract => ~ComputedFrom(individual_brackets)

\* C27, as claimed: the table the sidebar starts with, and falls back to,
\* has strictly ascending thresholds from 0, and every fixed amount is the
\* tax the tier below has reached at that threshold, so that the tax of an
\* income on a threshold is the fixed amount of the tier that starts there.
C27_DefaultContract ==
    (InMain /\ brackets_json.tiers = default_brackets) =>
        /\ individual_brackets = default_brackets
        /\ individual_brackets[1].threshold = 0
        /\ StrictlyAscending(individual_brackets)
        /\ Cumulative(individual_brackets)
        /\ \A i \in 2..Len(individual_brackets) :
               compute_individual_tax_brackets(
                   individual_brackets[i].threshold, individual_brackets)
               = individual_brackets[i].fixed

\* The schema fields at fault: absent from the payload, or present with a
\* value that does not convert to the field's type.
Faulty(code, p) ==
    {i \in 1..FieldCount(code) :
        \/ ~Present(p, code, i)
        \/ ~coerce(FieldType(code, i), ValueOf(p, code, i)).ok}

FirstFaulty(code, p) ==
    CHOOSE i \in Faulty(code, p) : \A j \in Faulty(code, p) : i <= j

\* The payload without the fields that follow field i in the schema.
UpTo(code, p, i) ==
    SelectSeq(p, LAMBDA e : \A j \in (i + 1)..FieldCount(code) :
                                e.key # FieldName(code, j))

RECURSIVE Reversed(_)
Reversed(p) ==
    IF p = << >> THEN << >> ELSE Append(Reversed(Tail(p)), Head(p))

\* C28: when fields of a registered form are at fault the call fails with
\* the error of the first of them in schema order: the missing-field error
\* naming it when it is absent, the conversion error of its value otherwise.
\* The payload in reverse insertion order fails the same way, and so does
\* the payload without any of the fields after the first faulty one.
C28_FirstFaultWins ==
    (built.fresh /\ Registered(form_code) /\ Faulty(form_code, payload) # {})
    => /\ ~built.result.ok
       /\ IF Present(payload, form_code, FirstFaulty(form_code, payload))
          THEN built.result.error
               = coerce(FieldType(form_code,
                                  FirstFaulty(form_code, payload)),
                        ValueOf(payload, form_code,
                                FirstFaulty(form_code, payload))).error
          ELSE /\ MissingFieldError(built.result.error)
               /\ built.result.error.field
                  = FieldName(form_code, FirstFaulty(form_code, payload))
       /\ validate_and_build_return(form_code, Reversed(payload))
          = built.result
       /\ validate_and_build_return(
              form_code,
              UpTo(form_code, payload, FirstFaulty(form_code, payload)))
          = built.result

\* A call with a value that does not convert in "Year", put in after the
\* other entries, and a later field absent: the conversion error is raised,
\* not the missing-field error.
C28_Witness ==
    /\ built.fresh
    /\ Registered(form_code)
    /\ Cardinality(Faulty(form_code, payload)) >= 2
    /\ Absent(form_code, payload) # {}
    /\ Present(payload, form_code, FirstFaulty(form_code, payload))
    /\ FieldName(form_code, FirstFaulty(form_code, payload)) = "Year"
    /\ payload[Len(payload)].key = "Year"
    /\ ~built.result.ok
    /\ ~MissingFieldError(built.result.error)

\* The keys of a payload.
Keys(p) == {p[e].key : e \in 1..Len(p)}

FieldNames(code) == {FieldName(code, i) : i \in 1..FieldCount(code)}

\* C29: the payload of the export tab has the field names of the selected
\* form's schema, each once and no other; a build from it is never refused
\* for a missing field; its net tax payable is between 0 and its gross tax.
C29_ExportComplete ==
    InMain =>
        /\ Registered(form_code)
        /\ Keys(payload) = FieldNames(form_code)
        /\ Len(payload) = FieldCount(form_code)
        /\ built.fresh => /\ ~MissingFieldError(built.result.error)
                          /\ built.result.ok
                          /\ built.result.columns = dict_keys(payload)
        /\ dict_get(payload, "Net Tax Payable (UGX)").t = "float"
        /\ dict_get(payload, "Net Tax Payable (UGX)").n >= 0
        /\ dict_get(payload, "Net Tax Payable (UGX)").n
               <= dict_get(payload, "Gross Tax (UGX)").n

\* A company return built from a gross tax that the credits reduce in part.
C29_Witness ==
    /\ built.fresh
    /\ form_code = "DT-2002"
    /\ built.result.ok
    /\ dict_get(payload, "Gross Turnover (UGX)").n > 0
    /\ dict_get(payload, "WHT Credits (UGX)").n > 0
    /\ dict_get(payload, "Net Tax Payable (UGX)").n > 0
    /\ dict_get(payload, "Net Tax Payable (UGX)").n
           < dict_get(payload, "Gross Tax (UGX)").n

\* C30, as claimed: every saved row holds, column by column, the figures
\* of its computation: taxable_income and gross_tax, and in net_tax_payable
\* the net tax payable max(0, gross_tax - credits_wht - credits_foreign -
\* rebates) of the row's own columns, whatever provisional tax was paid.
C30_SavedEqualsComputed ==
    \A i \in 1..Len(history) :
        /\ history[i].taxable_income
               = max0(max0(history[i].pbit) - history[i].capital_allowances
                      - history[i].exemptions)
        /\ history[i].gross_tax
               = GrossTax(history[i].taxpayer_type, history[i].taxable_income,
                          company_rate, individual_brackets)
        /\ history[i].net_tax_payable
               = max0(history[i].gross_tax - history[i].credits_wht
                      - history[i].credits_foreign - history[i].rebates)

=============================================================================
